---- MODULE Spec2Model ----
(***************************************************************************)
(* State-machine model of the scraper collection: the thread-pool + CSV    *)
(* lock pipeline shared by the site scrapers, the HTTP retry loops, the    *)
(* chunk planners, sitemap-index slicing, the XML loader with its regex    *)
(* fallback, robots.txt discovery and the dashboard's process manager.     *)
(* Every subsystem has its own specification over its own variables; the   *)
(* variables of the other subsystems stay at their initial value.          *)
(***************************************************************************)
EXTENDS Integers, Sequences, FiniteSets, Bags, TLC

VARIABLES
    \* ---- thread pool writing the shared output CSV ----
    mainPc,        \* position of the main thread in run()
    toSubmit,      \* number of sitemaps still to be handed to a pool
    pending,       \* submitted futures not yet picked up: rows each will write
    wpc,           \* per worker thread: position inside process_product
    rowsLeft,      \* per worker thread: rows still to write for its product
    csv_lock,      \* holder of the csv lock, or Free
    outFile,       \* number of rows in the output CSV (header included)
    \* ---- http_get (walmart, bisonoffice, emma_mason) ----
    hScraper,      \* whose http_get runs
    hPc,           \* "loop" while inside the for loop, "done" after return
    hAttempt,      \* the loop variable attempt
    hSent,         \* the GET requests sent so far, with what came back
    hSlept,        \* seconds slept so far
    hResult,       \* the value returned
    \* ---- FlareSolverrSession.flaresolverr_request ----
    fVariant,      \* "fpfc" or "cymax"
    max_retries,   \* the max_retries argument
    fPc,           \* "loop", "backoff" or "done"
    fAttempt,      \* the loop variable attempt
    fEvents,       \* commands posted and sleeps taken, in order
    fResult,       \* the (content, status) pair returned
    \* ---- cymax/generate_chunks.main ----
    CHUNK_SIZE,    \* the CHUNK_SIZE setting
    all_urls,      \* URLs collected from the sitemaps, duplicates included
    cyPc,          \* position in main
    unique_urls,   \* all_urls without duplicates, first occurrences kept
    cyOffset,      \* the loop variable offset of range(0, total, CHUNK_SIZE)
    cyChunks,      \* the planned chunks
    \* ---- fpfc/generate_chunks.py and fp_fc_scraper.py in chunk mode ----
    URLS_PER_JOB,          \* planner setting
    MAX_URLS_PER_SITEMAP,  \* planner setting (0: no cap)
    sitemapXml,            \* per sitemap: what fetching it yields
    fgPc,                  \* position in the planner script
    sitemap_stats,         \* results in the order the threads completed
    fgNext,                \* index of the next sitemap_stats entry to chunk
    chunk_id,              \* the running chunk_id counter
    chunks,                \* the matrix
    jobs,                  \* per matrix entry: what the scraper job did
    \* ---- sitemap-index mode: run() of the class scrapers, fp_fc main ----
    iScraper,        \* whose run this is
    indexDoc,        \* what loading the index gives: Unloadable or its <loc>s
    SITEMAP_OFFSET,  \* the SITEMAP_OFFSET setting
    MAX_SITEMAPS,    \* the MAX_SITEMAPS setting (0: all)
    iPc,             \* position in run()
    all_sitemaps,    \* the discovered child sitemaps
    sitemaps_to_run, \* the slice this run works on
    csvOpen,         \* whether the output CSV has been opened
    iProcessed,      \* the sitemaps the loop has taken, in order
    iExit,           \* the exit status, -1 while running
    \* ---- load_xml (walmart, bisonoffice, luxedecor, blooming-dales) ----
    lScraper,      \* whose load_xml runs
    lBody,         \* the document the server holds at the URL
    lPc,           \* "fetch", "fetched" or "done"
    lAttempt,      \* fetch attempts made
    lData,         \* what the last fetch returned: "failed", "empty" or "body"
    lResult,       \* the value returned
    \* ---- BisonofficeScraper.run: choosing the sitemap index ----
    robotsTxt,     \* what GET robots.txt gives: an error, or its lines
    indexYields,   \* per index location: whether it yields child sitemaps
    rPc,           \* position in run()
    rSitemapUrl,   \* what get_sitemap_from_robots_txt returned
    rIndex,        \* the index URL handed to get_child_sitemaps
    rExit,         \* the exit status, -1 while running
    \* ---- dashboard: ProcessManager behind the Flask start route ----
    _lock,         \* holder of ProcessManager._lock, or Free
    _procs,        \* per key: pid of the stored process record, 0 for none
    _logs,         \* per key: pid whose log buffer is stored, 0 for none
    launched,      \* the subprocesses started so far, by pid: key and alive
    bufLines,      \* per pid: lines its reader thread has put in its buffer
    dPc,           \* per request thread: position in api_start / start
    dKey,          \* per request thread: the key of its request
    dProc,         \* per request thread: pid of the process it just opened
    dResponse,     \* per request thread: the answer it last gave
    \* ---- chunk selection: gshopping split_df_chunk / chunk_slice, bbb_simple ----
    sVariant,      \* "gshopping" or "bbb_simple"
    total_rows,    \* len(df) / len(items) / len(df_valid)
    total_chunks,  \* the --total-chunks argument
    sSlices,       \* per job run so far (chunk_id 1, 2, ...): the rows it took
    \* ---- gshopping: process_chunk / scrape_product_with_host_pool ----
    fs_urls,             \* the FlareSolverr hosts, in argument order
    gMaxRetries,         \* the --max-retries argument
    gDf,                 \* the rows of the chunk
    gPc,                 \* position in process_chunk
    gIdx,                \* index of the row being processed
    gAttempt,            \* the loop variable attempt
    last_result,         \* status of the last parsed, not completed page
    gResult,             \* status of what scrape_product_with_host_pool returned
    gFetches,            \* every fetch made: row, attempt, host, what came of it
    completed_products,  \* rows appended to completed_products
    remaining_rows,      \* rows appended to remaining_rows, with their status
    \* ---- fp_fc_scraper: http_get -> RequestManager.fetch ----
    rmPc,          \* "idle" between top-level calls, "fetch" inside one
    rmUrl,         \* the URL of the call
    retry_count,   \* the retry_count argument of the running fetch
    request_count, \* RequestManager.request_count
    rmLog,         \* session fetches and sleeps of the calls so far, in order
    rmResult,      \* per finished top-level call: what it returned
    \* ---- thread-pool run: collecting the futures (walmart, bisonoffice, fp_fc) ----
    kPc,           \* position of the main thread in its sitemap loop
    kSitemapsLeft, \* sitemaps not yet taken by the loop
    kTask,         \* per future of the current pool: where its task stands
    kRead,         \* per future: the value its task read from stats['errors']
    kCollected,    \* futures as_completed has handed out and the loop handled
    kFuture,       \* the future whose exception the main thread is handling
    kMainRead,     \* the value the main thread read from stats['errors']
    errors,        \* stats['errors']
    \* ---- bisonoffice: the seen set shared by the tasks of a run ----
    snPc,          \* position of run's sitemap loop
    snSitemapsLeft,\* sitemaps not yet taken by the loop
    snUrls,        \* the product URLs of the current sitemap, one task each
    snTask,        \* per task: where process_product_data stands
    seen,          \* self.seen
    seen_lock,     \* Free, or "held" by the task inside the with-block
    snFetched,     \* bag of the http_get calls made
    snRows,        \* bag of the rows written
    \* ---- dashboard: ProcessManager.stop ----
    sigterm,       \* SIGTERM sent to subprocesses: which one, by a stop of which key
    dashboardDown  \* the dashboard process itself was sent SIGTERM and ended

poolVars == <<mainPc, toSubmit, pending, wpc, rowsLeft, csv_lock, outFile>>

httpVars == <<hScraper, hPc, hAttempt, hSent, hSlept, hResult>>

flareVars == <<fVariant, max_retries, fPc, fAttempt, fEvents, fResult>>

cymaxVars == <<CHUNK_SIZE, all_urls, cyPc, unique_urls, cyOffset, cyChunks>>

fpfcVars == <<URLS_PER_JOB, MAX_URLS_PER_SITEMAP, sitemapXml, fgPc, sitemap_stats,
              fgNext, chunk_id, chunks, jobs>>

indexVars == <<iScraper, indexDoc, SITEMAP_OFFSET, MAX_SITEMAPS, iPc, all_sitemaps,
               sitemaps_to_run, csvOpen, iProcessed, iExit>>

loadXmlVars == <<lScraper, lBody, lPc, lAttempt, lData, lResult>>

robotsVars == <<robotsTxt, indexYields, rPc, rSitemapUrl, rIndex, rExit>>

dashVars == <<_lock, _procs, _logs, launched, bufLines, dPc, dKey, dProc, dResponse>>

splitVars == <<sVariant, total_rows, total_chunks, sSlices>>

gshopVars == <<fs_urls, gMaxRetries, gDf, gPc, gIdx, gAttempt, last_result, gResult, gFetches, completed_products, remaining_rows>>

requestManagerVars == <<rmPc, rmUrl, retry_count, request_count, rmLog, rmResult>>

collectVars == <<kPc, kSitemapsLeft, kTask, kRead, kCollected, kFuture, kMainRead, errors>>

seenVars == <<snPc, snSitemapsLeft, snUrls, snTask, seen, seen_lock, snFetched, snRows>>

stopVars == <<sigterm, dashboardDown>>

vars == <<poolVars, httpVars, flareVars, cymaxVars, fpfcVars, indexVars,
          loadXmlVars, robotsVars, dashVars, splitVars, gshopVars,
          requestManagerVars, collectVars, seenVars, stopVars>>

(***************************************************************************)
(* A specification drives one subsystem; the others rest in these states.  *)
(***************************************************************************)
PoolIdle ==
    /\ mainPc = "off"
    /\ toSubmit = 0
    /\ pending = <<>>
    /\ wpc = <<>>
    /\ rowsLeft = <<>>
    /\ csv_lock = "free"
    /\ outFile = 0

HttpIdle ==
    /\ hScraper = "none"
    /\ hPc = "off"
    /\ hAttempt = 0
    /\ hSent = <<>>
    /\ hSlept = 0
    /\ hResult = "unset"

FlareIdle ==
    /\ fVariant = "none"
    /\ max_retries = 0
    /\ fPc = "off"
    /\ fAttempt = 0
    /\ fEvents = <<>>
    /\ fResult = "unset"

(***************************************************************************)
(* Small helpers.                                                          *)
(***************************************************************************)
SeqsUpTo(S, n) == UNION {[1..k -> S] : k \in 0..n}

Min(a, b) == IF a <= b THEN a ELSE b

(***************************************************************************)
(* THREAD POOL + CSV LOCK                                                  *)
(* walmart.run / process_product / write_row, and the same shape in        *)
(* bisonoffice, emma_mason, luxedecor, blooming_dales and fp_fc_scraper.   *)
(***************************************************************************)
Workers == {"w1", "w2"}

Free == "free"

MaxSitemapsRun == 2

MaxUrlsRun == 3

MaxRows == 2

CymaxIdle ==
    /\ CHUNK_SIZE = 0
    /\ all_urls = <<>>
    /\ cyPc = "off"
    /\ unique_urls = <<>>
    /\ cyOffset = 0
    /\ cyChunks = <<>>

FpfcIdle ==
    /\ URLS_PER_JOB = 0
    /\ MAX_URLS_PER_SITEMAP = 0
    /\ sitemapXml = <<>>
    /\ fgPc = "off"
    /\ sitemap_stats = <<>>
    /\ fgNext = 0
    /\ chunk_id = 0
    /\ chunks = <<>>
    /\ jobs = <<>>

IndexIdle ==
    /\ iScraper = "none"
    /\ indexDoc = [loaded |-> FALSE, locs |-> <<>>]
    /\ SITEMAP_OFFSET = 0
    /\ MAX_SITEMAPS = 0
    /\ iPc = "off"
    /\ all_sitemaps = <<>>
    /\ sitemaps_to_run = <<>>
    /\ csvOpen = FALSE
    /\ iProcessed = <<>>
    /\ iExit = -1

LoadXmlIdle ==
    /\ lScraper = "none"
    /\ lBody = [gzip |-> "plain", wellFormed |-> FALSE, locs |-> <<>>]
    /\ lPc = "off"
    /\ lAttempt = 0
    /\ lData = "failed"
    /\ lResult = [kind |-> "unset", locs |-> <<>>]

RobotsIdle ==
    /\ robotsTxt = [ok |-> FALSE, lines |-> <<>>]
    /\ indexYields = <<>>
    /\ rPc = "off"
    /\ rSitemapUrl = [loc |-> "None", bo |-> FALSE]
    /\ rIndex = [loc |-> "None", bo |-> FALSE]
    /\ rExit = -1

DashIdle ==
    /\ _lock = "free"
    /\ _procs = <<>>
    /\ _logs = <<>>
    /\ launched = <<>>
    /\ bufLines = <<>>
    /\ dPc = <<>>
    /\ dKey = <<>>
    /\ dProc = <<>>
    /\ dResponse = <<>>

SplitIdle ==
    /\ sVariant = "none"
    /\ total_rows = 0
    /\ total_chunks = 0
    /\ sSlices = <<>>

GshopIdle ==
    /\ fs_urls = <<>>
    /\ gMaxRetries = 0
    /\ gDf = <<>>
    /\ gPc = "off"
    /\ gIdx = 0
    /\ gAttempt = 0
    /\ last_result = ""
    /\ gResult = ""
    /\ gFetches = <<>>
    /\ completed_products = <<>>
    /\ remaining_rows = <<>>

RequestManagerIdle ==
    /\ rmPc = "off"
    /\ rmUrl = ""
    /\ retry_count = 0
    /\ request_count = 0
    /\ rmLog = <<>>
    /\ rmResult = <<>>

CollectIdle ==
    /\ kPc = "off"
    /\ kSitemapsLeft = 0
    /\ kTask = <<>>
    /\ kRead = <<>>
    /\ kCollected = {}
    /\ kFuture = 0
    /\ kMainRead = 0
    /\ errors = 0

SeenIdle ==
    /\ snPc = "off"
    /\ snSitemapsLeft = 0
    /\ snUrls = <<>>
    /\ snTask = <<>>
    /\ seen = {}
    /\ seen_lock = Free
    /\ snFetched = EmptyBag
    /\ snRows = EmptyBag

StopIdle ==
    /\ sigterm = {}
    /\ dashboardDown = FALSE

notPool == <<httpVars, flareVars, cymaxVars, fpfcVars, indexVars, loadXmlVars,
             robotsVars, dashVars, splitVars, gshopVars, requestManagerVars,
             collectVars, seenVars, stopVars>>

PoolInit ==
    /\ HttpIdle /\ FlareIdle /\ CymaxIdle /\ FpfcIdle /\ IndexIdle
    /\ LoadXmlIdle /\ RobotsIdle /\ DashIdle /\ SplitIdle /\ GshopIdle
    /\ RequestManagerIdle /\ CollectIdle /\ SeenIdle /\ StopIdle
    /\ mainPc = "open"
    /\ toSubmit \in 1..MaxSitemapsRun
    /\ pending = <<>>
    /\ wpc = [w \in Workers |-> "idle"]
    /\ rowsLeft = [w \in Workers |-> 0]
    /\ csv_lock = Free
    /\ outFile = 0

\* open(output_path, "w"); writer.writerow(self.csv_header): the main thread
\* writes the header before any pool exists, without taking the lock.
WriteHeader ==
    /\ mainPc = "open"
    /\ outFile' = outFile + 1
    /\ mainPc' = "submit"
    /\ UNCHANGED <<toSubmit, pending, wpc, rowsLeft, csv_lock>>
    /\ UNCHANGED notPool

\* urls = self.get_product_urls(sitemap_url);
\* futures = [executor.submit(self.process_product, url, writer) for url in urls]
\* Each product page yields some number of rows (none when the fetch fails).
SubmitSitemap ==
    /\ mainPc = "submit"
    /\ toSubmit > 0
    /\ \E urls \in SeqsUpTo(0..MaxRows, MaxUrlsRun) \ {<<>>} : pending' = urls
    /\ toSubmit' = toSubmit - 1
    /\ mainPc' = "collect"
    /\ UNCHANGED <<wpc, rowsLeft, csv_lock, outFile>>
    /\ UNCHANGED notPool

\* A pool thread picks the next queued future and runs process_product up to
\* the point where the rows of the page are known.
StartProduct(w) ==
    /\ mainPc = "collect"
    /\ wpc[w] = "idle"
    /\ pending # <<>>
    /\ rowsLeft' = [rowsLeft EXCEPT ![w] = Head(pending)]
    /\ pending' = Tail(pending)
    /\ wpc' = [wpc EXCEPT ![w] = "process"]
    /\ UNCHANGED <<mainPc, toSubmit, csv_lock, outFile>>
    /\ UNCHANGED notPool

\* threading.Lock: acquire succeeds only while nobody holds the lock.
LockAvailableUnguarded(lock) == TRUE

LockAvailable(lock) == lock = Free

\* with self.csv_lock: -- the thread enters the with-block, whose body is the
\* single call writer.writerow(row).
AcquireCsvLock(w) ==
    /\ wpc[w] = "process"
    /\ rowsLeft[w] > 0
    /\ LockAvailable(csv_lock)
    /\ csv_lock' = w
    /\ wpc' = [wpc EXCEPT ![w] = "writerow"]
    /\ UNCHANGED <<mainPc, toSubmit, pending, rowsLeft, outFile>>
    /\ UNCHANGED notPool

\* writer.writerow(row) returns (the row is in the file) or raises.
WriterowReturn(w) ==
    /\ wpc[w] = "writerow"
    /\ \E ok \in BOOLEAN :
          outFile' = IF ok THEN outFile + 1 ELSE outFile
    /\ wpc' = [wpc EXCEPT ![w] = "exit_with"]
    /\ UNCHANGED <<mainPc, toSubmit, pending, rowsLeft, csv_lock>>
    /\ UNCHANGED notPool

\* Leaving the with-block releases the lock, on return and on exception alike.
ReleaseCsvLock(w) ==
    /\ wpc[w] = "exit_with"
    /\ csv_lock' = IF csv_lock = w THEN Free ELSE csv_lock
    /\ rowsLeft' = [rowsLeft EXCEPT ![w] = @ - 1]
    /\ wpc' = [wpc EXCEPT ![w] = "process"]
    /\ UNCHANGED <<mainPc, toSubmit, pending, outFile>>
    /\ UNCHANGED notPool

\* process_product returns: the thread is free for the next future.
FinishProduct(w) ==
    /\ wpc[w] = "process"
    /\ rowsLeft[w] = 0
    /\ wpc' = [wpc EXCEPT ![w] = "idle"]
    /\ UNCHANGED <<mainPc, toSubmit, pending, rowsLeft, csv_lock, outFile>>
    /\ UNCHANGED notPool

\* for future in as_completed(futures): ... ; leaving the executor's
\* with-block waits for every worker.
PoolJoined ==
    /\ mainPc = "collect"
    /\ pending = <<>>
    /\ \A w \in Workers : wpc[w] = "idle"
    /\ mainPc' = IF toSubmit = 0 THEN "done" ELSE "submit"
    /\ UNCHANGED <<toSubmit, pending, wpc, rowsLeft, csv_lock, outFile>>
    /\ UNCHANGED notPool

PoolNext ==
    \/ WriteHeader
    \/ SubmitSitemap
    \/ \E w \in Workers : StartProduct(w)
    \/ \E w \in Workers : AcquireCsvLock(w)
    \/ \E w \in Workers : WriterowReturn(w)
    \/ \E w \in Workers : ReleaseCsvLock(w)
    \/ \E w \in Workers : FinishProduct(w)
    \/ PoolJoined

SpecPool == PoolInit /\ [][PoolNext]_vars

InWriterow == {w \in Workers : wpc[w] = "writerow"}

\* C1: every worker thread that is inside writer.writerow on the output CSV
\* holds the single csv lock, so at no time are two worker threads inside
\* writerow together.
C1_WriterowUnderLock ==
    /\ \A w \in Workers : wpc[w] \in {"writerow", "exit_with"} => csv_lock = w
    /\ Cardinality(InWriterow) <= 1

\* One worker is inside writerow while another worker, with a row to write,
\* is held back by the lock.
C1_Witness ==
    \E w1 \in Workers, w2 \in Workers :
        /\ w1 # w2
        /\ wpc[w1] = "writerow"
        /\ csv_lock = w1
        /\ wpc[w2] = "process"
        /\ rowsLeft[w2] > 0
        /\ outFile >= 2

(***************************************************************************)
(* HTTP GET WITH RETRIES                                                   *)
(* WalmartScraper.http_get, BisonofficeScraper.http_get,                   *)
(* emmamasonScraper.http_get: the same loop in the three files.            *)
(***************************************************************************)
HttpGetAttempts == 3

None == "None"

HttpScrapers == {"walmart", "bisonoffice", "emma_mason"}

\* The URL the caller asks for; bo records whether the query holds bo=0.
ProductUrl == [loc |-> "product", bo |-> FALSE]

\* append_bo_param: sets the bo=0 query parameter; "" stays as it is.
append_bo_param(url) == IF url.loc = "" THEN url ELSE [url EXCEPT !.bo = TRUE]

\* bisonoffice rewrites the URL before the loop; the others send it as given.
RequestUrl(scraper, url) ==
    IF scraper = "bisonoffice" THEN append_bo_param(url) ELSE url

\* What one session.get can come back with: a response (status code and
\* text), requests.exceptions.Timeout, or any other exception.
HttpReplies ==
    {[kind |-> "response", code |-> 200, text |-> t] : t \in {"page_a", "page_b"}}
    \cup {[kind |-> "response", code |-> c, text |-> "err"] : c \in {404, 429, 500}}
    \cup {[kind |-> "timeout", code |-> 0, text |-> ""],
          [kind |-> "exception", code |-> 0, text |-> ""]}

IsOk(reply) == reply.kind = "response" /\ reply.code = 200

\* time.sleep(5) after a 429, 2 after a timeout, 1 after any other exception.
SleepAfter(reply) ==
    IF reply.kind = "timeout" THEN 2
    ELSE IF reply.kind = "exception" THEN 1
    ELSE IF reply.code = 429 THEN 5
    ELSE 0

\* for attempt in range(3)
HttpLoopOneMore(attempt) == attempt <= HttpGetAttempts

HttpLoopContinues(attempt) == attempt < HttpGetAttempts

notHttp == <<poolVars, flareVars, cymaxVars, fpfcVars, indexVars, loadXmlVars,
             robotsVars, dashVars, splitVars, gshopVars, requestManagerVars,
             collectVars, seenVars, stopVars>>

HttpInit ==
    /\ PoolIdle /\ FlareIdle /\ CymaxIdle /\ FpfcIdle /\ IndexIdle
    /\ LoadXmlIdle /\ RobotsIdle /\ DashIdle /\ SplitIdle /\ GshopIdle
    /\ RequestManagerIdle /\ CollectIdle /\ SeenIdle /\ StopIdle
    /\ hScraper \in HttpScrapers
    /\ hPc = "loop"
    /\ hAttempt = 0
    /\ hSent = <<>>
    /\ hSlept = 0
    /\ hResult = "unset"

\* One iteration of the loop: send the GET, return r.text on a 200,
\* otherwise log, sleep as the failure asks and go to the next attempt.
HttpAttempt ==
    /\ hPc = "loop"
    /\ HttpLoopContinues(hAttempt)
    /\ \E reply \in HttpReplies :
          /\ hSent' = Append(hSent, [url |-> RequestUrl(hScraper, ProductUrl),
                                     reply |-> reply])
          /\ IF IsOk(reply)
                THEN /\ hResult' = reply.text
                     /\ hPc' = "done"
                     /\ UNCHANGED <<hAttempt, hSlept>>
                ELSE /\ hSlept' = hSlept + SleepAfter(reply)
                     /\ hAttempt' = hAttempt + 1
                     /\ UNCHANGED <<hPc, hResult>>
    /\ UNCHANGED hScraper
    /\ UNCHANGED notHttp

\* The loop is exhausted: return None.
HttpReturnNone ==
    /\ hPc = "loop"
    /\ ~HttpLoopContinues(hAttempt)
    /\ hResult' = None
    /\ hPc' = "done"
    /\ UNCHANGED <<hScraper, hAttempt, hSent, hSlept>>
    /\ UNCHANGED notHttp

HttpNext ==
    \/ HttpAttempt
    \/ HttpReturnNone

SpecHttp == HttpInit /\ [][HttpNext]_vars

OkRequests == {i \in 1..Len(hSent) : IsOk(hSent[i].reply)}

\* C2: one call of http_get sends at most 3 GETs, all for the one URL; every
\* reply that is not a 200 (other status, timeout, other exception) uses up
\* exactly one attempt; a 200 is the last request sent and its body is what
\* is returned; None is returned exactly when all 3 attempts failed.
C2_HttpGetAtMostThree ==
    /\ Len(hSent) <= 3
    /\ \A i \in 1..Len(hSent) : hSent[i].url = RequestUrl(hScraper, ProductUrl)
    /\ OkRequests \subseteq {Len(hSent)}
    /\ hAttempt = Cardinality({i \in 1..Len(hSent) : ~IsOk(hSent[i].reply)})
    /\ (OkRequests # {}) => (hPc = "done" /\ hResult = hSent[Len(hSent)].reply.text)
    /\ (hPc = "done") =>
          \/ OkRequests # {} /\ hResult = hSent[Len(hSent)].reply.text
          \/ OkRequests = {} /\ hResult = None /\ Len(hSent) = 3
    /\ (hPc = "loop") => hResult = "unset"

\* The third attempt succeeds after a timeout and a non-200 status.
C2_Witness ==
    /\ hPc = "done"
    /\ Len(hSent) = 3
    /\ hSent[1].reply.kind = "timeout"
    /\ hSent[2].reply.code = 429
    /\ hResult = "page_b"
    /\ hSlept = 7

(***************************************************************************)
(* FLARESOLVERR REQUEST WITH BACKOFF                                       *)
(* FlareSolverrSession.flaresolverr_request in fpfc/fp_fc_scraper.py and   *)
(* cymax/generate_chunks.py.                                               *)
(***************************************************************************)
MaxRetriesArg == 3

FlareVariants == {"fpfc", "cymax"}

\* What one session.post to FlareSolverr can come back with.  A reply with
\* HTTP 200 and JSON status "ok" carries solution.response (maybe empty).
FlareReplies ==
    {[kind |-> "response", code |-> 200, status |-> "ok", content |-> c] :
        c \in {"html", ""}}
    \cup {[kind |-> "response", code |-> 200, status |-> "error", content |-> ""],
          [kind |-> "response", code |-> 200, status |-> "not_json", content |-> ""],
          [kind |-> "response", code |-> 500, status |-> "error", content |-> ""],
          [kind |-> "timeout", code |-> 0, status |-> "", content |-> ""],
          [kind |-> "connection_error", code |-> 0, status |-> "", content |-> ""]}

\* response.status_code == 200 and result.get("status") == "ok"
\* (response.json() raising lands in except Exception: not solved).
FlareSolved(reply) ==
    reply.kind = "response" /\ reply.code = 200 /\ reply.status = "ok"

\* if attempt < max_retries - 1: time.sleep(...)
SleepsAfterAlways(attempt, retries) == attempt < retries

SleepsAfter(attempt, retries) == attempt < retries - 1

\* 2 ** attempt, plus random.uniform(0, 1) in cymax.
BackoffSleep(variant, attempt) ==
    [ev |-> "sleep", base |-> 2 ^ attempt, jitter |-> (variant = "cymax"),
     cmd |-> "", outcome |-> <<>>, solved |-> FALSE, content |-> ""]

PostEvent(reply) ==
    [ev |-> "post", base |-> 0, jitter |-> FALSE,
     cmd |-> "request.get", outcome |-> <<reply.kind, reply.code, reply.status>>,
     solved |-> FlareSolved(reply), content |-> reply.content]

notFlare == <<poolVars, httpVars, cymaxVars, fpfcVars, indexVars, loadXmlVars,
              robotsVars, dashVars, splitVars, gshopVars, requestManagerVars,
              collectVars, seenVars, stopVars>>

FlareInit ==
    /\ PoolIdle /\ HttpIdle /\ CymaxIdle /\ FpfcIdle /\ IndexIdle
    /\ LoadXmlIdle /\ RobotsIdle /\ DashIdle /\ SplitIdle /\ GshopIdle
    /\ RequestManagerIdle /\ CollectIdle /\ SeenIdle /\ StopIdle
    /\ fVariant \in FlareVariants
    /\ max_retries \in 0..MaxRetriesArg
    /\ fPc = "loop"
    /\ fAttempt = 0
    /\ fEvents = <<>>
    /\ fResult = <<"unset", -1>>

\* The try block of one iteration: post the command; on a solved reply
\* return (content, 200), otherwise fall through to the backoff.
FlarePost ==
    /\ fPc = "loop"
    /\ fAttempt < max_retries
    /\ \E reply \in FlareReplies :
          /\ fEvents' = Append(fEvents, PostEvent(reply))
          /\ IF FlareSolved(reply)
                THEN /\ fResult' = <<reply.content, 200>>
                     /\ fPc' = "done"
                ELSE /\ fPc' = "backoff"
                     /\ UNCHANGED fResult
    /\ UNCHANGED <<fVariant, max_retries, fAttempt>>
    /\ UNCHANGED notFlare

\* The end of a failed iteration: sleep unless it was the last one.
FlareBackoff ==
    /\ fPc = "backoff"
    /\ fEvents' = IF SleepsAfter(fAttempt, max_retries)
                     THEN Append(fEvents, BackoffSleep(fVariant, fAttempt))
                     ELSE fEvents
    /\ fAttempt' = fAttempt + 1
    /\ fPc' = "loop"
    /\ UNCHANGED <<fVariant, max_retries, fResult>>
    /\ UNCHANGED notFlare

\* return None, 0
FlareReturnNone ==
    /\ fPc = "loop"
    /\ fAttempt >= max_retries
    /\ fResult' = <<None, 0>>
    /\ fPc' = "done"
    /\ UNCHANGED <<fVariant, max_retries, fAttempt, fEvents>>
    /\ UNCHANGED notFlare

FlareNext ==
    \/ FlarePost
    \/ FlareBackoff
    \/ FlareReturnNone

SpecFlare == FlareInit /\ [][FlareNext]_vars

PostIdx == {i \in 1..Len(fEvents) : fEvents[i].ev = "post"}

SleepIdx == {i \in 1..Len(fEvents) : fEvents[i].ev = "sleep"}

\* C10: flaresolverr_request posts at most max_retries "request.get"
\* commands; posts and sleeps alternate, the sleep after the k-th post
\* (k from 0) lasts 2^k seconds (with jitter only in cymax) and no sleep
\* follows the last attempt; it returns (content, 200) right after the first
\* solved reply and (None, 0) only after max_retries unsolved ones.
C10_FlareRetryBackoff ==
    /\ Cardinality(PostIdx) <= max_retries
    /\ \A i \in PostIdx : i % 2 = 1 /\ fEvents[i].cmd = "request.get"
    /\ \A i \in SleepIdx :
          /\ i % 2 = 0
          /\ fEvents[i].base = 2 ^ ((i \div 2) - 1)
          /\ fEvents[i].jitter = (fVariant = "cymax")
          /\ i \div 2 < max_retries
    /\ \A i \in PostIdx :
          fEvents[i].solved =>
             /\ i = Len(fEvents)
             /\ fPc = "done"
             /\ fResult = <<fEvents[i].content, 200>>
    /\ (fPc = "done") =>
          /\ fEvents # <<>> => fEvents[Len(fEvents)].ev = "post"
          /\ \/ \E i \in PostIdx : fEvents[i].solved
             \/ fResult = <<None, 0>> /\ Cardinality(PostIdx) = max_retries
    /\ (fPc # "done") => fResult = <<"unset", -1>>

\* Two failed attempts, each followed by its sleep (1 s, then 2 s), and a
\* third failed attempt after which the call returns at once.
C10_Witness ==
    /\ fPc = "done"
    /\ max_retries = 3
    /\ fResult = <<None, 0>>
    /\ Len(fEvents) = 5
    /\ fEvents[2].base = 1
    /\ fEvents[4].base = 2

(***************************************************************************)
(* CYMAX CHUNK PLANNER                                                     *)
(* cymax/generate_chunks.py, main: de-duplicate the collected URLs and cut *)
(* the list into chunks of CHUNK_SIZE.                                     *)
(***************************************************************************)
MaxAllUrls == 4

MaxChunkSize == 3

CyUrls == {"u1", "u2", "u3", "u4"}

Range(q) == {q[i] : i \in 1..Len(q)}

\* list(dict.fromkeys(all_urls)): first occurrences, in order.
RECURSIVE Dedup(_)
Dedup(q) ==
    IF q = <<>> THEN <<>>
    ELSE LET front == Dedup(SubSeq(q, 1, Len(q) - 1))
             last == q[Len(q)]
         IN IF last \in Range(front) THEN front ELSE Append(front, last)

\* limit = min(CHUNK_SIZE, total - offset)
ChunkLimitFull(size, total, offset) == size

ChunkLimit(size, total, offset) == Min(size, total - offset)

notCymax == <<poolVars, httpVars, flareVars, fpfcVars, indexVars, loadXmlVars,
              robotsVars, dashVars, splitVars, gshopVars, requestManagerVars,
              collectVars, seenVars, stopVars>>

CymaxInit ==
    /\ PoolIdle /\ HttpIdle /\ FlareIdle /\ FpfcIdle /\ IndexIdle
    /\ LoadXmlIdle /\ RobotsIdle /\ DashIdle /\ SplitIdle /\ GshopIdle
    /\ RequestManagerIdle /\ CollectIdle /\ SeenIdle /\ StopIdle
    /\ CHUNK_SIZE \in 0..MaxChunkSize
    /\ all_urls \in SeqsUpTo(CyUrls, MaxAllUrls)
    /\ cyPc = "check"
    /\ unique_urls = <<>>
    /\ cyOffset = 0
    /\ cyChunks = <<>>

\* if CHUNK_SIZE <= 0: raise ValueError
CyCheckChunkSize ==
    /\ cyPc = "check"
    /\ cyPc' = IF CHUNK_SIZE <= 0 THEN "error" ELSE "collect"
    /\ UNCHANGED <<CHUNK_SIZE, all_urls, unique_urls, cyOffset, cyChunks>>
    /\ UNCHANGED notCymax

\* unique_urls = list(dict.fromkeys(all_urls)); total == 0 raises
\* RuntimeError; otherwise the list is written to the URL file.
CyDedup ==
    /\ cyPc = "collect"
    /\ unique_urls' = Dedup(all_urls)
    /\ cyPc' = IF Len(unique_urls') = 0 THEN "error" ELSE "plan"
    /\ UNCHANGED <<CHUNK_SIZE, all_urls, cyOffset, cyChunks>>
    /\ UNCHANGED notCymax

\* One iteration of: for i, offset in enumerate(range(0, total, CHUNK_SIZE))
CyPlanChunk ==
    /\ cyPc = "plan"
    /\ cyOffset < Len(unique_urls)
    /\ cyChunks' = Append(cyChunks,
          [chunk_id |-> Len(cyChunks),
           offset |-> cyOffset,
           limit |-> ChunkLimit(CHUNK_SIZE, Len(unique_urls), cyOffset),
           total_urls |-> Len(unique_urls)])
    /\ cyOffset' = cyOffset + CHUNK_SIZE
    /\ UNCHANGED <<CHUNK_SIZE, all_urls, cyPc, unique_urls>>
    /\ UNCHANGED notCymax

\* The range is exhausted: the matrix is written out.
CyEmitMatrix ==
    /\ cyPc = "plan"
    /\ cyOffset >= Len(unique_urls)
    /\ cyPc' = "done"
    /\ UNCHANGED <<CHUNK_SIZE, all_urls, unique_urls, cyOffset, cyChunks>>
    /\ UNCHANGED notCymax

CymaxNext ==
    \/ CyCheckChunkSize
    \/ CyDedup
    \/ CyPlanChunk
    \/ CyEmitMatrix

SpecCymax == CymaxInit /\ [][CymaxNext]_vars

CeilDiv(a, b) == (a + b - 1) \div b

\* The indices of the URL list that chunk c covers.
CyCovered(c) == {k \in 0..(Len(unique_urls) - 1) : c.offset <= k /\ k < c.offset + c.limit}

\* C3: with total > 0 de-duplicated URLs and CHUNK_SIZE > 0 the emitted
\* chunks are numbered 0..n-1 with n = ceil(total / CHUNK_SIZE); chunk i has
\* offset i*CHUNK_SIZE and limit min(CHUNK_SIZE, total - offset) >= 1; the
\* ranges follow one another without gap or overlap and cover [0, total);
\* every chunk records total_urls = total.
C3_CymaxChunksPartition ==
    (cyPc = "done") =>
        LET total == Len(unique_urls)
            n == Len(cyChunks)
        IN /\ total > 0 /\ CHUNK_SIZE > 0
           /\ Range(unique_urls) = Range(all_urls)
           /\ \A i, j \in 1..total : unique_urls[i] = unique_urls[j] => i = j
           /\ n = CeilDiv(total, CHUNK_SIZE)
           /\ \A i \in 1..n :
                 /\ cyChunks[i].chunk_id = i - 1
                 /\ cyChunks[i].offset = (i - 1) * CHUNK_SIZE
                 /\ cyChunks[i].limit = Min(CHUNK_SIZE, total - cyChunks[i].offset)
                 /\ cyChunks[i].limit >= 1
                 /\ cyChunks[i].total_urls = total
                 /\ i < n => cyChunks[i].offset + cyChunks[i].limit = cyChunks[i + 1].offset
           /\ cyChunks[n].offset + cyChunks[n].limit = total
           /\ \A k \in 0..(total - 1) :
                 Cardinality({i \in 1..n : k \in CyCovered(cyChunks[i])}) = 1

\* Duplicates were dropped and the last of several chunks is a short one.
C3_Witness ==
    /\ cyPc = "done"
    /\ Len(all_urls) > Len(unique_urls)
    /\ Len(cyChunks) = 2
    /\ cyChunks[2].limit = 1
    /\ CHUNK_SIZE = 2

(***************************************************************************)
(* FPFC CHUNK PLANNER AND THE SCRAPER'S CHUNK MODE                         *)
(* fpfc/generate_chunks.py counts the product URLs of every sitemap and    *)
(* emits one matrix entry per chunk; fp_fc_scraper.main, started with      *)
(* SITEMAP_URL / URL_OFFSET / MAX_URLS_PER_SITEMAP of an entry, scrapes    *)
(* that slice.  Sitemaps follow the sitemaps.org schema: every loc is a    *)
(* ns:url/ns:loc element, so the path lists of both scripts select the     *)
(* same elements.  URLS_PER_JOB is positive (0 divides by zero).           *)
(***************************************************************************)
MaxLocs == 2

MaxUrlsPerJob == 2

MaxCap == 1

\* The sitemaps left after the planner's own offset/limit slice, in order.
sitemap_locs == <<"sm1", "sm2">>

\* A loc text, as the substrings the filters look for in it.
LocTexts ==
    {[id |-> "a", parts |-> {".html"}],
     [id |-> "b", parts |-> {".html"}],
     [id |-> "c", parts |-> {".html", ".svg"}],
     [id |-> "d", parts |-> {".jpg"}]}

\* fetch_xml / load_xml of a sitemap: its loc elements, or nothing.
SitemapFetches ==
    {[ok |-> FALSE, locs |-> <<>>]}
    \cup {[ok |-> TRUE, locs |-> q] : q \in SeqsUpTo(LocTexts, MaxLocs)}

RECURSIVE SelectSeq2(_, _)
SelectSeq2(q, keep) ==
    IF q = <<>> THEN <<>>
    ELSE IF Head(q) \in keep THEN <<Head(q)>> \o SelectSeq2(Tail(q), keep)
         ELSE SelectSeq2(Tail(q), keep)

\* generate_chunks.process_sitemap: ".html" in text and none of
\* .jpg .jpeg .png .gif .webp in it.
PlannerKeeps ==
    {t \in LocTexts : ".html" \in t.parts
                      /\ t.parts \cap {".jpg", ".jpeg", ".png", ".gif", ".webp"} = {}}

\* fp_fc_scraper.main: none of .jpg .jpeg .png .gif .webp .bmp .svg in the
\* text and ".html" in it.
ScraperKeeps ==
    {t \in LocTexts : t.parts \cap {".jpg", ".jpeg", ".png", ".gif", ".webp",
                                    ".bmp", ".svg"} = {}
                      /\ ".html" \in t.parts}

\* process_sitemap(sm_url): the count, capped by MAX_URLS_PER_SITEMAP.
process_sitemap(sm_url) ==
    LET xml == sitemapXml[sm_url]
        total == Len(SelectSeq2(xml.locs, PlannerKeeps))
    IN [url |-> sm_url,
        total_urls |-> IF ~xml.ok THEN 0
                       ELSE IF MAX_URLS_PER_SITEMAP > 0 /\ total > MAX_URLS_PER_SITEMAP
                            THEN MAX_URLS_PER_SITEMAP
                            ELSE total]

\* The inner loop of the chunk generation for one sitemap_stats entry whose
\* total is positive; first is the chunk_id of its first chunk.
ChunksOfFullSize(sm, first) ==
    LET num_chunks == (sm.total_urls + URLS_PER_JOB - 1) \div URLS_PER_JOB
    IN [i \in 1..num_chunks |->
           [sitemap_url |-> sm.url,
            offset |-> (i - 1) * URLS_PER_JOB,
            limit |-> URLS_PER_JOB,
            chunk_id |-> first + i - 1]]

ChunksOf(sm, first) ==
    LET num_chunks == (sm.total_urls + URLS_PER_JOB - 1) \div URLS_PER_JOB
    IN [i \in 1..num_chunks |->
           [sitemap_url |-> sm.url,
            offset |-> (i - 1) * URLS_PER_JOB,
            limit |-> Min(URLS_PER_JOB, sm.total_urls - (i - 1) * URLS_PER_JOB),
            chunk_id |-> first + i - 1]]

\* Python's q[start:end] for 0 <= start.
Slice(q, start, end) == SubSeq(q, start + 1, Min(end, Len(q)))

\* The positions, in the scraper's filtered list, a chunk-mode run submits:
\* urls[start:end] with end = start + limit when limit > 0, else the rest.
SliceFromStart(n, url_offset, limit) ==
    Slice([i \in 1..n |-> i], 0, IF limit > 0 THEN limit ELSE n)

urls_to_process(n, url_offset, limit) ==
    Slice([i \in 1..n |-> i], url_offset, IF limit > 0 THEN url_offset + limit ELSE n)

notFpfc == <<poolVars, httpVars, flareVars, cymaxVars, indexVars, loadXmlVars,
             robotsVars, dashVars, splitVars, gshopVars, requestManagerVars,
             collectVars, seenVars, stopVars>>

FpfcInit ==
    /\ PoolIdle /\ HttpIdle /\ FlareIdle /\ CymaxIdle /\ IndexIdle
    /\ LoadXmlIdle /\ RobotsIdle /\ DashIdle /\ SplitIdle /\ GshopIdle
    /\ RequestManagerIdle /\ CollectIdle /\ SeenIdle /\ StopIdle
    /\ URLS_PER_JOB \in 1..MaxUrlsPerJob
    /\ MAX_URLS_PER_SITEMAP \in 0..MaxCap
    /\ sitemapXml \in [Range(sitemap_locs) -> SitemapFetches]
    /\ fgPc = "count"
    /\ sitemap_stats = <<>>
    /\ fgNext = 1
    /\ chunk_id = 0
    /\ chunks = <<>>
    /\ jobs = <<>>

\* for future in as_completed(futures): sitemap_stats.append(future.result())
\* -- the counting threads finish in any order.
FgCollectStat(sm_url) ==
    /\ fgPc = "count"
    /\ \A i \in 1..Len(sitemap_stats) : sitemap_stats[i].url # sm_url
    /\ sitemap_stats' = Append(sitemap_stats, process_sitemap(sm_url))
    /\ fgPc' = IF Len(sitemap_stats') = Len(sitemap_locs) THEN "chunks" ELSE "count"
    /\ UNCHANGED <<URLS_PER_JOB, MAX_URLS_PER_SITEMAP, sitemapXml, fgNext, chunk_id,
                   chunks, jobs>>
    /\ UNCHANGED notFpfc

\* One iteration of: for sm in sitemap_stats (total == 0: continue).
FgChunkSitemap ==
    /\ fgPc = "chunks"
    /\ fgNext <= Len(sitemap_stats)
    /\ LET sm == sitemap_stats[fgNext]
           new == IF sm.total_urls = 0 THEN <<>> ELSE ChunksOf(sm, chunk_id)
       IN /\ chunks' = chunks \o new
          /\ chunk_id' = chunk_id + Len(new)
    /\ fgNext' = fgNext + 1
    /\ UNCHANGED <<URLS_PER_JOB, MAX_URLS_PER_SITEMAP, sitemapXml, fgPc, sitemap_stats,
                   jobs>>
    /\ UNCHANGED notFpfc

\* The matrix is written to GITHUB_OUTPUT: one job per entry is planned.
FgEmitMatrix ==
    /\ fgPc = "chunks"
    /\ fgNext > Len(sitemap_stats)
    /\ fgPc' = "jobs"
    /\ jobs' = [j \in 1..Len(chunks) |-> [exit |-> "planned", submitted |-> <<>>]]
    /\ UNCHANGED <<URLS_PER_JOB, MAX_URLS_PER_SITEMAP, sitemapXml, sitemap_stats, fgNext,
                   chunk_id, chunks>>
    /\ UNCHANGED notFpfc

\* The scraper's filtered URL list of a sitemap.
ScraperUrls(sm_url) == SelectSeq2(sitemapXml[sm_url].locs, ScraperKeeps)

\* fp_fc_scraper.main in chunk mode for matrix entry j: exit 1 when the
\* sitemap cannot be loaded (or has no child element), exit 0 when the
\* filter or the slice leaves nothing, else every URL of the slice is
\* submitted to the pool.  The jobs are separate processes that share
\* nothing, so their order is immaterial; they are taken in matrix order.
RunChunkJob(j) ==
    /\ fgPc = "jobs"
    /\ j \in 1..Len(chunks)
    /\ jobs[j].exit = "planned"
    /\ \A k \in 1..(j - 1) : jobs[k].exit # "planned"
    /\ LET c == chunks[j]
           xml == sitemapXml[c.sitemap_url]
           urls == ScraperUrls(c.sitemap_url)
           slice == urls_to_process(Len(urls), c.offset, c.limit)
       IN jobs' = [jobs EXCEPT ![j] =
             IF ~xml.ok \/ xml.locs = <<>> THEN [exit |-> "exit1", submitted |-> <<>>]
             ELSE IF urls = <<>> \/ slice = <<>> THEN [exit |-> "exit0", submitted |-> <<>>]
             ELSE [exit |-> "scraped", submitted |-> slice]]
    /\ UNCHANGED <<URLS_PER_JOB, MAX_URLS_PER_SITEMAP, sitemapXml, fgPc, sitemap_stats,
                   fgNext, chunk_id, chunks>>
    /\ UNCHANGED notFpfc

FpfcNext ==
    \/ \E sm_url \in Range(sitemap_locs) : FgCollectStat(sm_url)
    \/ FgChunkSitemap
    \/ FgEmitMatrix
    \/ \E j \in 1..Len(chunks) : RunChunkJob(j)

SpecFpfc == FpfcInit /\ [][FpfcNext]_vars

ChunksFor(sm_url) == {j \in 1..Len(chunks) : chunks[j].sitemap_url = sm_url}

ChunkRange(c) == c.offset .. (c.offset + c.limit - 1)

\* C4: in the finished matrix every entry has 1 <= limit <= URLS_PER_JOB; the
\* ranges of the entries of one sitemap are pairwise disjoint and cover
\* exactly [0, count) for its (capped) count; a sitemap with count 0 has no
\* entry; the chunk_ids are pairwise distinct and are exactly 0..N-1 -- in
\* whichever order the counting threads completed.
C4_FpfcMatrixPartition ==
    (fgPc = "jobs") =>
        /\ \A j \in 1..Len(chunks) :
              chunks[j].limit >= 1 /\ chunks[j].limit <= URLS_PER_JOB
        /\ \A sm_url \in Range(sitemap_locs) :
              LET count == process_sitemap(sm_url).total_urls
              IN /\ count = 0 => ChunksFor(sm_url) = {}
                 /\ \A j, k \in ChunksFor(sm_url) :
                       j # k => ChunkRange(chunks[j]) \cap ChunkRange(chunks[k]) = {}
                 /\ UNION {ChunkRange(chunks[j]) : j \in ChunksFor(sm_url)} = 0..(count - 1)
        /\ \A j, k \in 1..Len(chunks) : chunks[j].chunk_id = chunks[k].chunk_id => j = k
        /\ {chunks[j].chunk_id : j \in 1..Len(chunks)} = 0..(Len(chunks) - 1)

\* The second sitemap's thread finished first, it got two chunks, and the
\* other sitemap, counted as 0, got none.
C4_Witness ==
    /\ fgPc = "jobs"
    /\ sitemap_stats[1].url = "sm2"
    /\ Cardinality(ChunksFor("sm2")) = 2
    /\ sitemapXml["sm1"].ok /\ sitemapXml["sm1"].locs # <<>>
    /\ ChunksFor("sm1") = {}

AllJobsRan == fgPc = "jobs" /\ \A j \in 1..Len(chunks) : jobs[j].exit # "planned"

\* The jobs of a sitemap that submitted position p of the scraper's list.
JobsSubmitting(sm_url, p) ==
    {j \in ChunksFor(sm_url) : p \in Range(jobs[j].submitted)}

\* The jobs of a sitemap that submitted URL t.
JobsSubmittingUrl(sm_url, t) ==
    {j \in ChunksFor(sm_url) :
        \E p \in Range(jobs[j].submitted) : ScraperUrls(sm_url)[p] = t}

\* C5 as stated: once every planned job has run, every URL the scraper's
\* filter selects from a sitemap was submitted by exactly one job.
C5_EverySelectedUrlInOneJob ==
    AllJobsRan =>
        \A sm_url \in Range(sitemap_locs) :
            \A t \in Range(ScraperUrls(sm_url)) :
                Cardinality(JobsSubmittingUrl(sm_url, t)) = 1

\* C5 as amended: once every planned job has run, every entry of the
\* scraper's filtered list whose index is below the planner's capped count
\* was submitted by exactly one job, and the entries from the cap on by none.
C5_EveryPlannedEntryInOneJob ==
    AllJobsRan =>
        \A sm_url \in Range(sitemap_locs) :
            \A p \in 1..Len(ScraperUrls(sm_url)) :
                Cardinality(JobsSubmitting(sm_url, p)) =
                    IF p <= process_sitemap(sm_url).total_urls THEN 1 ELSE 0

\* A sitemap with one entry only the planner counts and one product URL,
\* planned as two jobs: the first scrapes the product, the second finds its
\* slice empty.
C5_Witness ==
    /\ AllJobsRan
    /\ URLS_PER_JOB = 1
    /\ Len(sitemapXml["sm1"].locs) = 2
    /\ sitemapXml["sm1"].locs[1].id = "c"
    /\ sitemapXml["sm1"].locs[2].id = "a"
    /\ \E j, k \in ChunksFor("sm1") :
          /\ jobs[j].exit = "scraped" /\ jobs[j].submitted = <<1>>
          /\ jobs[k].exit = "exit0"

(***************************************************************************)
(* SITEMAP-INDEX MODE                                                      *)
(* WalmartScraper.run, BisonofficeScraper.run, EmmaMasonScraper.run and    *)
(* the index mode of fp_fc_scraper.main: discover the child sitemaps,      *)
(* slice them by SITEMAP_OFFSET / MAX_SITEMAPS, open the CSV, loop.        *)
(***************************************************************************)
MaxFound == 3

MaxOffset == 3

MaxMaxSitemaps == 2

IndexScrapers == {"walmart", "bisonoffice", "emma_mason", "fp_fc"}

\* What load_xml gives for the index: None (loaded is FALSE), or a tree with
\* its <loc> elements; an element either has text or not.  A child sitemap
\* is named by the position of its element.
Unloadable == [loaded |-> FALSE, locs |-> <<>>]

IndexDocs ==
    {Unloadable} \cup {[loaded |-> TRUE, locs |-> q] : q \in SeqsUpTo({"text", "empty"}, MaxFound)}

\* Stands for index_url in the list walmart builds when there is no <loc>.
IndexItself == 0

\* [e.text.strip() for e in elements if e.text]
WithText(locs) == SelectSeq([i \in 1..Len(locs) |-> i], LAMBDA i : locs[i] = "text")

get_child_sitemaps(scraper, doc) ==
    IF ~doc.loaded THEN <<>>
    ELSE IF scraper = "walmart"
         THEN IF Len(doc.locs) > 0 THEN WithText(doc.locs) ELSE <<IndexItself>>
         ELSE WithText(doc.locs)

\* Whether the run stops with "No sitemaps found" (the class scrapers only).
ExitsOnNoSitemaps(scraper, found) == scraper # "fp_fc" /\ found = <<>>

SitemapsToRunNoOffset(found, offset, max) ==
    Slice(found, offset, IF max > 0 THEN max ELSE Len(found))

\* end_idx = offset + max if max > 0 else len(all); all[offset:end_idx]
SitemapsToRun(found, offset, max) ==
    Slice(found, offset, IF max > 0 THEN offset + max ELSE Len(found))

notIndex == <<poolVars, httpVars, flareVars, cymaxVars, fpfcVars, loadXmlVars,
              robotsVars, dashVars, splitVars, gshopVars, requestManagerVars,
              collectVars, seenVars, stopVars>>

IndexInit ==
    /\ PoolIdle /\ HttpIdle /\ FlareIdle /\ CymaxIdle /\ FpfcIdle
    /\ LoadXmlIdle /\ RobotsIdle /\ DashIdle /\ SplitIdle /\ GshopIdle
    /\ RequestManagerIdle /\ CollectIdle /\ SeenIdle /\ StopIdle
    /\ iScraper \in IndexScrapers
    /\ indexDoc \in IndexDocs
    /\ SITEMAP_OFFSET \in 0..MaxOffset
    /\ MAX_SITEMAPS \in 0..MaxMaxSitemaps
    /\ iPc = "start"
    /\ all_sitemaps = <<>>
    /\ sitemaps_to_run = <<>>
    /\ csvOpen = FALSE
    /\ iProcessed = <<>>
    /\ iExit = -1

\* load the index; fp_fc exits with status 1 when it cannot be loaded
IxLoadIndex ==
    /\ iPc = "start"
    /\ IF iScraper = "fp_fc" /\ indexDoc = Unloadable
       THEN /\ iPc' = "exited"
            /\ iExit' = 1
            /\ UNCHANGED all_sitemaps
       ELSE /\ iPc' = "found"
            /\ all_sitemaps' = get_child_sitemaps(iScraper, indexDoc)
            /\ UNCHANGED iExit
    /\ UNCHANGED <<iScraper, indexDoc, SITEMAP_OFFSET, MAX_SITEMAPS,
                   sitemaps_to_run, csvOpen, iProcessed>>
    /\ UNCHANGED notIndex

\* if not all_sitemaps: sys.exit(1)
IxNoSitemaps ==
    /\ iPc = "found"
    /\ ExitsOnNoSitemaps(iScraper, all_sitemaps)
    /\ iPc' = "exited"
    /\ iExit' = 1
    /\ UNCHANGED <<iScraper, indexDoc, SITEMAP_OFFSET, MAX_SITEMAPS, all_sitemaps,
                   sitemaps_to_run, csvOpen, iProcessed>>
    /\ UNCHANGED notIndex

\* if offset >= len(all_sitemaps): sys.exit(0)
IxOffsetBeyond ==
    /\ iPc = "found"
    /\ ~ExitsOnNoSitemaps(iScraper, all_sitemaps)
    /\ SITEMAP_OFFSET >= Len(all_sitemaps)
    /\ iPc' = "exited"
    /\ iExit' = 0
    /\ UNCHANGED <<iScraper, indexDoc, SITEMAP_OFFSET, MAX_SITEMAPS, all_sitemaps,
                   sitemaps_to_run, csvOpen, iProcessed>>
    /\ UNCHANGED notIndex

IxSlice ==
    /\ iPc = "found"
    /\ ~ExitsOnNoSitemaps(iScraper, all_sitemaps)
    /\ SITEMAP_OFFSET < Len(all_sitemaps)
    /\ sitemaps_to_run' = SitemapsToRun(all_sitemaps, SITEMAP_OFFSET, MAX_SITEMAPS)
    /\ iPc' = "open"
    /\ UNCHANGED <<iScraper, indexDoc, SITEMAP_OFFSET, MAX_SITEMAPS, all_sitemaps,
                   csvOpen, iProcessed, iExit>>
    /\ UNCHANGED notIndex

\* with open(output_path, "w") ...: writer.writerow(header)
IxOpenCsv ==
    /\ iPc = "open"
    /\ csvOpen' = TRUE
    /\ iPc' = "loop"
    /\ UNCHANGED <<iScraper, indexDoc, SITEMAP_OFFSET, MAX_SITEMAPS, all_sitemaps,
                   sitemaps_to_run, iProcessed, iExit>>
    /\ UNCHANGED notIndex

\* one turn of: for sitemap_url in sitemaps_to_run
IxProcessSitemap ==
    /\ iPc = "loop"
    /\ Len(iProcessed) < Len(sitemaps_to_run)
    /\ iProcessed' = Append(iProcessed, sitemaps_to_run[Len(iProcessed) + 1])
    /\ UNCHANGED <<iScraper, indexDoc, SITEMAP_OFFSET, MAX_SITEMAPS, iPc, all_sitemaps,
                   sitemaps_to_run, csvOpen, iExit>>
    /\ UNCHANGED notIndex

\* the loop is over, the statistics are logged and the run ends normally
IxFinish ==
    /\ iPc = "loop"
    /\ Len(iProcessed) = Len(sitemaps_to_run)
    /\ iPc' = "exited"
    /\ iExit' = 0
    /\ UNCHANGED <<iScraper, indexDoc, SITEMAP_OFFSET, MAX_SITEMAPS, all_sitemaps,
                   sitemaps_to_run, csvOpen, iProcessed>>
    /\ UNCHANGED notIndex

IndexNext ==
    \/ IxLoadIndex
    \/ IxNoSitemaps
    \/ IxOffsetBeyond
    \/ IxSlice
    \/ IxOpenCsv
    \/ IxProcessSitemap
    \/ IxFinish

SpecIndex == IndexInit /\ [][IndexNext]_vars

\* The child sitemaps were discovered: the index was loaded and parsed.
IndexDiscovered == indexDoc # Unloadable

\* The sitemaps at indices offset .. min(offset + max, n) - 1 of the
\* discovered list (to n - 1 when max = 0), in index order.
ExpectedRun ==
    LET n  == Len(all_sitemaps)
        hi == IF MAX_SITEMAPS = 0 THEN n ELSE Min(SITEMAP_OFFSET + MAX_SITEMAPS, n)
    IN [i \in 1..(hi - SITEMAP_OFFSET) |-> all_sitemaps[SITEMAP_OFFSET + i]]

\* The jobs with offsets 0, m, 2m, ... and MAX_SITEMAPS = m that take the
\* sitemap at list position p of the discovered list.
JobsTaking(p, m) ==
    LET n == Len(all_sitemaps)
    IN {k \in 0..n : p \in Range(SitemapsToRun([i \in 1..n |-> i], k * m, m))}

IndexRunOver == iPc = "exited" /\ IndexDiscovered

OffsetPartitions ==
    MAX_SITEMAPS >= 1 =>
        \A p \in 1..Len(all_sitemaps) : Cardinality(JobsTaking(p, MAX_SITEMAPS)) = 1

\* C6 as stated: with n discovered child sitemaps, an offset >= n ends the
\* run with status 0 before the CSV is opened; otherwise exactly the
\* sitemaps offset .. min(offset + max, n) - 1 are processed in index order,
\* and jobs with offsets 0, m, 2m, ... cover every sitemap exactly once.
C6_OffsetBeyondExitsZero ==
    IndexRunOver =>
        /\ IF SITEMAP_OFFSET >= Len(all_sitemaps)
           THEN iExit = 0 /\ ~csvOpen /\ iProcessed = <<>>
           ELSE iExit = 0 /\ csvOpen /\ iProcessed = ExpectedRun
        /\ OffsetPartitions

\* C6, amended: the same for n >= 1; with no child sitemap discovered the
\* class scrapers (walmart, bisonoffice, emma_mason) end with status 1
\* before the CSV is opened, and only fp_fc_scraper ends with status 0.
\* The CSV is never open unless the offset is inside the list.
C6_IndexSlicing ==
    /\ csvOpen => SITEMAP_OFFSET < Len(all_sitemaps)
    /\ iPc = "exited" /\ (IndexDiscovered \/ iScraper # "fp_fc") =>
        /\ IF all_sitemaps = <<>> /\ iScraper # "fp_fc"
           THEN iExit = 1 /\ ~csvOpen /\ iProcessed = <<>>
           ELSE IF SITEMAP_OFFSET >= Len(all_sitemaps)
                THEN iExit = 0 /\ ~csvOpen /\ iProcessed = <<>>
                ELSE iExit = 0 /\ csvOpen /\ iProcessed = ExpectedRun
        /\ OffsetPartitions

\* A run that started inside the list and stopped before its end.
C6_Witness ==
    /\ iPc = "exited"
    /\ SITEMAP_OFFSET >= 1
    /\ MAX_SITEMAPS >= 1
    /\ SITEMAP_OFFSET + MAX_SITEMAPS < Len(all_sitemaps)
    /\ Len(iProcessed) = MAX_SITEMAPS

(***************************************************************************)
(* LOAD_XML                                                                *)
(* load_xml of walmart, bisonoffice, luxedecor and blooming-dales: fetch   *)
(* the body, gunzip it where that is handled, parse it, and on a parse     *)
(* error build a urlset from the <loc> regex.                              *)
(***************************************************************************)
MaxXmlLocs == 2

XmlScrapers == {"walmart", "bisonoffice", "luxedecor", "blooming_dales"}

\* A <loc> is written as <loc>http...</loc>, as <loc><![CDATA[http...]]></loc>
\* or holds something that is no http(s) URL.
LocKinds == {"http", "cdata_http", "other"}

\* A non-empty body: plain text, a sound gzip stream or a broken one that
\* starts with the gzip magic; wellFormed tells whether the text inside is
\* well-formed XML; locs are the <loc> elements written in it.
XmlBodies ==
    [gzip : {"plain", "gzip_ok", "gzip_bad"}, wellFormed : BOOLEAN,
     locs : SeqsUpTo(LocKinds, MaxXmlLocs)]

\* What one fetch returns: None, an empty body (status 200, nothing in it)
\* or the body.
FetchReplies == {"failed", "empty", "body"}

\* walmart, bisonoffice and blooming-dales try three times, luxedecor once.
LoadXmlAttempts(scraper) == IF scraper = "luxedecor" THEN 1 ELSE 3

\* bisonoffice and blooming-dales fetch bytes and test for the gzip magic.
HandlesGzip(scraper) == scraper \in {"bisonoffice", "blooming_dales"}

GunzipFails(scraper, body) == HandlesGzip(scraper) /\ body.gzip = "gzip_bad"

\* Whether the function gets to see the text of the document; a gzip
\* stream that is not decompressed is no text.
ReadsText(scraper, body) ==
    \/ body.gzip = "plain"
    \/ HandlesGzip(scraper) /\ body.gzip = "gzip_ok"

\* ET.fromstring succeeds
ParsesAsXml(scraper, body) == ReadsText(scraper, body) /\ body.wellFormed

\* <loc>(https?://[^<]+)</loc>; bisonoffice and blooming-dales strip CDATA
\* wrappers before and accept them in the pattern.
LocMatches(scraper, kind) ==
    \/ kind = "http"
    \/ kind = "cdata_http" /\ HandlesGzip(scraper)

RegexMatches(scraper, body) ==
    IF ReadsText(scraper, body)
    THEN SelectSeq([i \in 1..Len(body.locs) |-> i],
                   LAMBDA i : LocMatches(scraper, body.locs[i]))
    ELSE <<>>

ReturnsNone == [kind |-> "None", locs |-> <<>>]

RegexFallbackGivesUp(scraper, body) == ReturnsNone

\* the except ET.ParseError branch: a urlset with one url/loc per match
RegexFallback(scraper, body) == [kind |-> "urlset", locs |-> RegexMatches(scraper, body)]

notLoadXml == <<poolVars, httpVars, flareVars, cymaxVars, fpfcVars, indexVars,
                robotsVars, dashVars, splitVars, gshopVars,
                requestManagerVars, collectVars, seenVars, stopVars>>

LoadXmlInit ==
    /\ PoolIdle /\ HttpIdle /\ FlareIdle /\ CymaxIdle /\ FpfcIdle
    /\ IndexIdle /\ RobotsIdle /\ DashIdle /\ SplitIdle /\ GshopIdle
    /\ RequestManagerIdle /\ CollectIdle /\ SeenIdle /\ StopIdle
    /\ lScraper \in XmlScrapers
    /\ lBody \in XmlBodies
    /\ lPc = "fetch"
    /\ lAttempt = 0
    /\ lData = "failed"
    /\ lResult = [kind |-> "unset", locs |-> <<>>]

\* one turn of the fetch loop: data = http_get(url); if data: break
LxFetch ==
    /\ lPc = "fetch"
    /\ \E reply \in FetchReplies :
          /\ lData' = reply
          /\ lAttempt' = lAttempt + 1
          /\ lPc' = IF reply = "body" \/ lAttempt + 1 >= LoadXmlAttempts(lScraper)
                    THEN "fetched" ELSE "fetch"
    /\ UNCHANGED <<lScraper, lBody, lResult>>
    /\ UNCHANGED notLoadXml

\* if not data: return None
LxNoData ==
    /\ lPc = "fetched"
    /\ lData # "body"
    /\ lResult' = ReturnsNone
    /\ lPc' = "done"
    /\ UNCHANGED <<lScraper, lBody, lAttempt, lData>>
    /\ UNCHANGED notLoadXml

\* gzip.decompress raises: return None
LxGunzipFails ==
    /\ lPc = "fetched"
    /\ lData = "body"
    /\ GunzipFails(lScraper, lBody)
    /\ lResult' = ReturnsNone
    /\ lPc' = "done"
    /\ UNCHANGED <<lScraper, lBody, lAttempt, lData>>
    /\ UNCHANGED notLoadXml

\* ET.fromstring, and the regex fallback when it raises ParseError
LxParse ==
    /\ lPc = "fetched"
    /\ lData = "body"
    /\ ~GunzipFails(lScraper, lBody)
    /\ lResult' = IF ParsesAsXml(lScraper, lBody)
                  THEN [kind |-> "tree", locs |-> [i \in 1..Len(lBody.locs) |-> i]]
                  ELSE RegexFallback(lScraper, lBody)
    /\ lPc' = "done"
    /\ UNCHANGED <<lScraper, lBody, lAttempt, lData>>
    /\ UNCHANGED notLoadXml

LoadXmlNext ==
    \/ LxFetch
    \/ LxNoData
    \/ LxGunzipFails
    \/ LxParse

SpecLoadXml == LoadXmlInit /\ [][LoadXmlNext]_vars

\* A body arrived, could be read and did not parse; an empty body is a
\* body that does not parse.
UnparsableBody ==
    \/ lData = "empty"
    \/ /\ lData = "body"
       /\ ~GunzipFails(lScraper, lBody)
       /\ ~ParsesAsXml(lScraper, lBody)

ExpectedUrlset ==
    [kind |-> "urlset",
     locs |-> IF lData = "body" THEN RegexMatches(lScraper, lBody) ELSE <<>>]

\* C7 as stated: a fetched body that does not parse gives the synthetic
\* urlset with one url/loc per regex match; None is returned only when no
\* body could be fetched or when decompression failed.
C7_NoneOnlyWhenNotFetched ==
    lPc = "done" =>
        /\ UnparsableBody => lResult = ExpectedUrlset
        /\ lResult = ReturnsNone =>
              lData = "failed" \/ (lData = "body" /\ GunzipFails(lScraper, lBody))

\* C7, amended: a non-empty fetched body that does not parse gives the
\* synthetic urlset with one url/loc per regex match, in document order;
\* None is returned exactly when the last fetch gave nothing or an empty
\* body, or when decompression failed.
C7_LoadXmlFallback ==
    lPc = "done" =>
        /\ UnparsableBody /\ lData = "body" => lResult = ExpectedUrlset
        /\ lResult = ReturnsNone <=>
              lData # "body" \/ GunzipFails(lScraper, lBody)

\* The fallback ran on a body fetched at a later attempt and kept one
\* <loc> while dropping another.
C7_Witness ==
    /\ lPc = "done"
    /\ lAttempt >= 2
    /\ lResult.kind = "urlset"
    /\ Len(lResult.locs) >= 1
    /\ Len(lResult.locs) < Len(lBody.locs)

(***************************************************************************)
(* ROBOTS.TXT DISCOVERY                                                    *)
(* BisonofficeScraper.get_sitemap_from_robots_txt and the head of run():   *)
(* take the Sitemap directive of robots.txt or fall back to the known      *)
(* index, then leave with status 1 when the index yields no child sitemap. *)
(***************************************************************************)
MaxRobotsLines == 3

\* The values a Sitemap directive can carry; "" is a directive without one.
DirectiveValues == {"", "https://a/sitemap.xml", "https://b/sitemap.xml"}

DefaultIndex == [loc |-> "curr_url/sitemap_index.xml", bo |-> FALSE]

\* A line that starts with "sitemap:" in any case, or any other line.
RobotsLines ==
    {[directive |-> "other", value |-> ""]}
    \cup {[directive |-> "sitemap", value |-> v] : v \in DirectiveValues}

\* requests.get + raise_for_status: a RequestException, or the text.
RobotsReplies ==
    {[ok |-> FALSE, lines |-> <<>>]}
    \cup {[ok |-> TRUE, lines |-> q] : q \in SeqsUpTo(RobotsLines, MaxRobotsLines)}

IndexLocs == {DefaultIndex.loc} \cup (DirectiveValues \ {""})

NoneUrl == [loc |-> None, bo |-> FALSE]

SitemapLines(lines) == {i \in 1..Len(lines) : lines[i].directive = "sitemap"}

LastSitemapLine(lines) ==
    CHOOSE i \in SitemapLines(lines) : \A j \in SitemapLines(lines) : j <= i

\* the line at which the for loop returns
FirstSitemapLine(lines) ==
    CHOOSE i \in SitemapLines(lines) : \A j \in SitemapLines(lines) : i <= j

get_sitemap_from_robots_txt(reply) ==
    IF ~reply.ok \/ SitemapLines(reply.lines) = {}
    THEN NoneUrl
    ELSE append_bo_param([loc |-> reply.lines[FirstSitemapLine(reply.lines)].value,
                          bo |-> FALSE])

\* Python's truth test on an Optional[str]
Falsy(url) == url.loc \in {None, ""}

notRobots == <<poolVars, httpVars, flareVars, cymaxVars, fpfcVars, indexVars,
               loadXmlVars, dashVars, splitVars, gshopVars,
               requestManagerVars, collectVars, seenVars, stopVars>>

RobotsInit ==
    /\ PoolIdle /\ HttpIdle /\ FlareIdle /\ CymaxIdle /\ FpfcIdle
    /\ IndexIdle /\ LoadXmlIdle /\ DashIdle /\ SplitIdle /\ GshopIdle
    /\ RequestManagerIdle /\ CollectIdle /\ SeenIdle /\ StopIdle
    /\ robotsTxt \in RobotsReplies
    /\ indexYields \in [IndexLocs -> BOOLEAN]
    /\ rPc = "robots"
    /\ rSitemapUrl = NoneUrl
    /\ rIndex = NoneUrl
    /\ rExit = -1

\* sitemap_url = self.get_sitemap_from_robots_txt()
RbReadRobots ==
    /\ rPc = "robots"
    /\ rSitemapUrl' = get_sitemap_from_robots_txt(robotsTxt)
    /\ rPc' = "choose"
    /\ UNCHANGED <<robotsTxt, indexYields, rIndex, rExit>>
    /\ UNCHANGED notRobots

\* if not sitemap_url: sitemap_url = default
RbChooseIndex ==
    /\ rPc = "choose"
    /\ rIndex' = IF Falsy(rSitemapUrl) THEN append_bo_param(DefaultIndex) ELSE rSitemapUrl
    /\ rPc' = "children"
    /\ UNCHANGED <<robotsTxt, indexYields, rSitemapUrl, rExit>>
    /\ UNCHANGED notRobots

\* all_sitemaps = get_child_sitemaps(sitemap_url); empty: sys.exit(1)
RbNoSitemaps ==
    /\ rPc = "children"
    /\ ~indexYields[rIndex.loc]
    /\ rExit' = 1
    /\ rPc' = "exited"
    /\ UNCHANGED <<robotsTxt, indexYields, rSitemapUrl, rIndex>>
    /\ UNCHANGED notRobots

\* child sitemaps were found: the run goes on to the offset test
RbGoOn ==
    /\ rPc = "children"
    /\ indexYields[rIndex.loc]
    /\ rPc' = "slicing"
    /\ UNCHANGED <<robotsTxt, indexYields, rSitemapUrl, rIndex, rExit>>
    /\ UNCHANGED notRobots

RobotsNext ==
    \/ RbReadRobots
    \/ RbChooseIndex
    \/ RbNoSitemaps
    \/ RbGoOn

SpecRobots == RobotsInit /\ [][RobotsNext]_vars

IndexChosen == rPc \in {"exited", "slicing"}

HasSitemapLine == robotsTxt.ok /\ SitemapLines(robotsTxt.lines) # {}

\* The value of the Sitemap: line that no other Sitemap: line precedes.
FirstDirective ==
    LET ls == robotsTxt.lines
        i  == CHOOSE k \in 1..Len(ls) :
                 /\ ls[k].directive = "sitemap"
                 /\ \A j \in 1..(k - 1) : ls[j].directive = "other"
    IN ls[i].value

NoDirectiveGivesDefault ==
    ~HasSitemapLine =>
        /\ rSitemapUrl = NoneUrl
        /\ rIndex = [DefaultIndex EXCEPT !.bo = TRUE]

ExitOneOnlyWithoutChildren == rExit = 1 <=> ~indexYields[rIndex.loc]

\* C8 as stated: without a readable robots.txt or without a Sitemap: line
\* the function returns None and the default index is used; with at least
\* one Sitemap: line the URL of the first one is used; status 1 only when
\* the chosen index yields no child sitemap.
C8_FirstSitemapLineUsed ==
    IndexChosen =>
        /\ NoDirectiveGivesDefault
        /\ HasSitemapLine => rIndex.loc = FirstDirective
        /\ ExitOneOnlyWithoutChildren

\* C8, amended: as above, but a first Sitemap: line that carries no URL
\* also leads to the default index (whatever the later lines say), and the
\* URL taken from robots.txt is used with bo=0 set in its query.
C8_RobotsIndexChoice ==
    IndexChosen =>
        /\ NoDirectiveGivesDefault
        /\ HasSitemapLine =>
              rIndex = IF FirstDirective = ""
                       THEN [DefaultIndex EXCEPT !.bo = TRUE]
                       ELSE [loc |-> FirstDirective, bo |-> TRUE]
        /\ ExitOneOnlyWithoutChildren

\* robots.txt opens with another line and then names two different
\* sitemaps; the run goes on with the first.
C8_Witness ==
    /\ rPc = "slicing"
    /\ robotsTxt.ok
    /\ Cardinality({robotsTxt.lines[i].value : i \in SitemapLines(robotsTxt.lines)}) = 2
    /\ robotsTxt.lines[1].directive = "other"
    /\ rIndex.loc = FirstDirective
    /\ FirstDirective # ""

(***************************************************************************)
(* DASHBOARD PROCESS MANAGER                                               *)
(* api_start and ProcessManager.start, run by the request threads of the   *)
(* Flask server, next to the subprocesses and their reader threads.        *)
(***************************************************************************)
MaxLaunches == 3

MaxLogLines == 1

WorkflowKeys == {"walmart", "cymax"}

RequestThreads == {"r1", "r2"}

NoAnswer == [code |-> 0, body |-> "none", pid |-> 0]

AlreadyRunning == [code |-> 409, body |-> "already running", pid |-> 0]

Started(pid) == [code |-> 200, body |-> "started", pid |-> pid]

\* Popen raised: the exception leaves start() and Flask answers 500.
ServerError == [code |-> 500, body |-> "exception", pid |-> 0]

NeverRunning(key) == FALSE

\* key in self._procs and self._procs[key]["proc"].poll() is None
IsRunning(key) == _procs[key] # 0 /\ launched[_procs[key]].alive

InFlight == {t \in RequestThreads : dPc[t] # "idle"}

notDash == <<poolVars, httpVars, flareVars, cymaxVars, fpfcVars, indexVars,
             loadXmlVars, robotsVars, splitVars, gshopVars,
             requestManagerVars, collectVars, seenVars, stopVars>>

DashInit ==
    /\ PoolIdle /\ HttpIdle /\ FlareIdle /\ CymaxIdle /\ FpfcIdle
    /\ IndexIdle /\ LoadXmlIdle /\ RobotsIdle /\ SplitIdle /\ GshopIdle
    /\ RequestManagerIdle /\ CollectIdle /\ SeenIdle /\ StopIdle
    /\ _lock = Free
    /\ _procs = [k \in WorkflowKeys |-> 0]
    /\ _logs = [k \in WorkflowKeys |-> 0]
    /\ launched = <<>>
    /\ bufLines = <<>>
    /\ dPc = [t \in RequestThreads |-> "idle"]
    /\ dKey = [t \in RequestThreads |-> "walmart"]
    /\ dProc = [t \in RequestThreads |-> 0]
    /\ dResponse = [t \in RequestThreads |-> NoAnswer]

\* POST /api/workflows/<key>/start reaches pm.start(key, env_overrides)
ApiStart(t, key) ==
    /\ dPc[t] = "idle"
    /\ Len(launched) + Cardinality(InFlight) < MaxLaunches
    /\ dPc' = [dPc EXCEPT ![t] = "lock"]
    /\ dKey' = [dKey EXCEPT ![t] = key]
    /\ dResponse' = [dResponse EXCEPT ![t] = NoAnswer]
    /\ UNCHANGED <<_lock, _procs, _logs, launched, bufLines, dProc>>
    /\ UNCHANGED notDash

\* with self._lock:
StartAcquire(t) ==
    /\ dPc[t] = "lock"
    /\ LockAvailable(_lock)
    /\ _lock' = t
    /\ dPc' = [dPc EXCEPT ![t] = "check"]
    /\ UNCHANGED <<_procs, _logs, launched, bufLines, dKey, dProc, dResponse>>
    /\ UNCHANGED notDash

\* return {"error": "already running"}; api_start answers 409
StartRefused(t) ==
    /\ dPc[t] = "check"
    /\ IsRunning(dKey[t])
    /\ dResponse' = [dResponse EXCEPT ![t] = AlreadyRunning]
    /\ _lock' = Free
    /\ dPc' = [dPc EXCEPT ![t] = "idle"]
    /\ UNCHANGED <<_procs, _logs, launched, bufLines, dKey, dProc>>
    /\ UNCHANGED notDash

\* proc = subprocess.Popen(...)
StartPopen(t) ==
    /\ dPc[t] = "check"
    /\ ~IsRunning(dKey[t])
    /\ launched' = Append(launched, [key |-> dKey[t], alive |-> TRUE])
    /\ bufLines' = Append(bufLines, 0)
    /\ dProc' = [dProc EXCEPT ![t] = Len(launched) + 1]
    /\ dPc' = [dPc EXCEPT ![t] = "store"]
    /\ UNCHANGED <<_lock, _procs, _logs, dKey, dResponse>>
    /\ UNCHANGED notDash

\* subprocess.Popen raises (OSError): nothing is stored, the lock is released
StartPopenFails(t) ==
    /\ dPc[t] = "check"
    /\ ~IsRunning(dKey[t])
    /\ dResponse' = [dResponse EXCEPT ![t] = ServerError]
    /\ _lock' = Free
    /\ dPc' = [dPc EXCEPT ![t] = "idle"]
    /\ UNCHANGED <<_procs, _logs, launched, bufLines, dKey, dProc>>
    /\ UNCHANGED notDash

\* self._logs[key] = log_buf; self._procs[key] = {...}; reader thread
\* started; return {"status": "started", "pid": proc.pid}
StartStore(t) ==
    /\ dPc[t] = "store"
    /\ _logs' = [_logs EXCEPT ![dKey[t]] = dProc[t]]
    /\ _procs' = [_procs EXCEPT ![dKey[t]] = dProc[t]]
    /\ dResponse' = [dResponse EXCEPT ![t] = Started(dProc[t])]
    /\ _lock' = Free
    /\ dPc' = [dPc EXCEPT ![t] = "idle"]
    /\ UNCHANGED <<launched, bufLines, dKey, dProc>>
    /\ UNCHANGED notDash

\* _reader: for line in proc.stdout: buf.append(line)
ReaderAppends(pid) ==
    /\ \E k \in WorkflowKeys : _procs[k] = pid \/ _logs[k] = pid
    /\ bufLines[pid] < MaxLogLines
    /\ bufLines' = [bufLines EXCEPT ![pid] = @ + 1]
    /\ UNCHANGED <<_lock, _procs, _logs, launched, dPc, dKey, dProc, dResponse>>
    /\ UNCHANGED notDash

\* the scraper script ends
ProcessExits(pid) ==
    /\ launched[pid].alive
    /\ launched' = [launched EXCEPT ![pid].alive = FALSE]
    /\ UNCHANGED <<_lock, _procs, _logs, bufLines, dPc, dKey, dProc, dResponse>>
    /\ UNCHANGED notDash

DashNext ==
    \/ \E t \in RequestThreads, key \in WorkflowKeys : ApiStart(t, key)
    \/ \E t \in RequestThreads : StartAcquire(t)
    \/ \E t \in RequestThreads : StartRefused(t)
    \/ \E t \in RequestThreads : StartPopen(t)
    \/ \E t \in RequestThreads : StartPopenFails(t)
    \/ \E t \in RequestThreads : StartStore(t)
    \/ \E pid \in 1..Len(launched) : ReaderAppends(pid)
    \/ \E pid \in 1..Len(launched) : ProcessExits(pid)

SpecDash == DashInit /\ [][DashNext]_vars

AliveFor(key) == {pid \in 1..Len(launched) : launched[pid].key = key /\ launched[pid].alive}

\* A start request comes back while the last process of its key lives.
ReturnsWhileAlive(t) ==
    /\ dPc[t] = "check"
    /\ dPc'[t] = "idle"
    /\ _procs[dKey[t]] # 0
    /\ launched[_procs[dKey[t]]].alive

\* C9: per workflow key at most one launched subprocess is alive at any
\* time, and a start request that finds the last process of its key still
\* alive launches nothing, leaves the stored process record and the stored
\* log buffer of the key as they are and answers 409 'already running',
\* however the request threads interleave.
C9_OneProcessPerKey ==
    /\ [](\A key \in WorkflowKeys : Cardinality(AliveFor(key)) <= 1)
    /\ [][\A t \in RequestThreads :
            ReturnsWhileAlive(t) =>
                /\ dResponse'[t] = AlreadyRunning
                /\ launched' = launched
                /\ _procs' = _procs
                /\ _logs' = _logs
                /\ bufLines' = bufLines]_vars

\* Two requests for one key: one started the process, the other was
\* refused while that process lives and its reader has logged a line.
C9_Witness ==
    \E t, u \in RequestThreads :
        /\ dKey[t] = dKey[u]
        /\ dResponse[t] = AlreadyRunning
        /\ dResponse[u].code = 200
        /\ AliveFor(dKey[t]) = {dResponse[u].pid}
        /\ bufLines[dResponse[u].pid] >= 1

(***************************************************************************)
(* CHUNK SELECTION BY CHUNK ID                                             *)
(* gshopping split_df_chunk (chunk_slice in the keyword scraper is the     *)
(* same arithmetic) and the chunk split of bbb_simple.main.  One job runs  *)
(* per chunk_id; a row is named by its 0-based position.                   *)
(***************************************************************************)
MaxSplitRows == 5

MaxTotalChunks == 4

SplitVariants == {"gshopping", "bbb_simple"}

\* the input rows, df.iloc positions 0 .. n - 1
Df(n) == [i \in 1..n |-> i - 1]

SplitEndIdxNoRest(id, total, rows_per_chunk, n) == id * rows_per_chunk

\* end_idx = chunk_id * rows_per_chunk if chunk_id < total_chunks else total_rows
SplitEndIdx(id, total, rows_per_chunk, n) ==
    IF id < total THEN id * rows_per_chunk ELSE n

split_df_chunk(n, id, total) ==
    IF total <= 0 THEN Df(n)
    ELSE LET rows_per_chunk == n \div total
             start_idx == (id - 1) * rows_per_chunk
             end_idx == SplitEndIdx(id, total, rows_per_chunk, n)
         IN Slice(Df(n), start_idx, end_idx)

BbbEndIdxNoRest(id, total, start_idx, chunk_size, n) == start_idx + chunk_size

\* end_idx = start_idx + chunk_size if chunk_id < total_chunks else len(df_valid)
BbbEndIdx(id, total, start_idx, chunk_size, n) ==
    IF id < total THEN start_idx + chunk_size ELSE n

\* max(0, min(idx, len(df_valid)))
Clamp(idx, n) == IF Min(idx, n) >= 0 THEN Min(idx, n) ELSE 0

bbb_chunk(n, id, total) ==
    IF total > 1
    THEN LET chunk_size == IF n \div total = 0 THEN 1 ELSE n \div total
             start_idx == (id - 1) * chunk_size
             end_idx == BbbEndIdx(id, total, start_idx, chunk_size, n)
         IN Slice(Df(n), Clamp(start_idx, n), Clamp(end_idx, n))
    ELSE Df(n)

\* Whether the run splits at all; otherwise one job takes everything.
Splits(variant, total) == IF variant = "gshopping" THEN total > 0 ELSE total > 1

notSplit == <<poolVars, httpVars, flareVars, cymaxVars, fpfcVars, indexVars,
              loadXmlVars, robotsVars, dashVars, gshopVars,
              requestManagerVars, collectVars, seenVars, stopVars>>

SplitInit ==
    /\ PoolIdle /\ HttpIdle /\ FlareIdle /\ CymaxIdle /\ FpfcIdle
    /\ IndexIdle /\ LoadXmlIdle /\ RobotsIdle /\ DashIdle /\ GshopIdle
    /\ RequestManagerIdle /\ CollectIdle /\ SeenIdle /\ StopIdle
    /\ sVariant \in SplitVariants
    /\ total_rows \in (IF sVariant = "bbb_simple" THEN 1 ELSE 0)..MaxSplitRows
    /\ total_chunks \in -1..MaxTotalChunks
    /\ sSlices = <<>>

\* the job with the next chunk_id runs and selects its rows
SplitRunJob ==
    /\ Splits(sVariant, total_chunks)
    /\ Len(sSlices) < total_chunks
    /\ LET id == Len(sSlices) + 1
       IN sSlices' = Append(sSlices,
                        IF sVariant = "gshopping"
                        THEN split_df_chunk(total_rows, id, total_chunks)
                        ELSE bbb_chunk(total_rows, id, total_chunks))
    /\ UNCHANGED <<sVariant, total_rows, total_chunks>>
    /\ UNCHANGED notSplit

\* chunking is off: the single job runs
SplitRunWhole ==
    /\ ~Splits(sVariant, total_chunks)
    /\ sSlices = <<>>
    /\ sSlices' = <<IF sVariant = "gshopping"
                    THEN split_df_chunk(total_rows, 1, total_chunks)
                    ELSE bbb_chunk(total_rows, 1, total_chunks)>>
    /\ UNCHANGED <<sVariant, total_rows, total_chunks>>
    /\ UNCHANGED notSplit

SplitNext ==
    \/ SplitRunJob
    \/ SplitRunWhole

SpecSplit == SplitInit /\ [][SplitNext]_vars

RECURSIVE Concat(_)
Concat(qs) == IF qs = <<>> THEN <<>> ELSE Head(qs) \o Concat(Tail(qs))

AllSplitJobsRan ==
    IF Splits(sVariant, total_chunks) THEN Len(sSlices) = total_chunks ELSE Len(sSlices) = 1

\* C11: for total_chunks >= 1 the slices of chunk_id 1 .. total_chunks,
\* laid end to end, are the input rows in order (contiguous, disjoint,
\* every row once), the chunks before the last hold floor(rows /
\* total_chunks) rows each; for total_chunks <= 0 the whole input is taken.
C11_SplitDfChunkPartition ==
    sVariant = "gshopping" =>
        /\ \A id \in 1..Len(sSlices) :
              id < total_chunks => Len(sSlices[id]) = total_rows \div total_chunks
        /\ AllSplitJobsRan => Concat(sSlices) = Df(total_rows)

\* Fewer rows than chunks, all jobs ran: the last chunk took every row.
C11_Witness ==
    /\ sVariant = "gshopping"
    /\ total_chunks >= 3
    /\ total_rows >= 2
    /\ total_rows < total_chunks
    /\ Len(sSlices) = total_chunks
    /\ Len(sSlices[total_chunks]) = total_rows

\* C12: for total_chunks > 1 and at least one valid row the ranges of
\* chunk_id 1 .. total_chunks are pairwise disjoint and together hold every
\* valid row, also with fewer rows than chunks; for total_chunks <= 1 the
\* single job takes all valid rows.
C12_BbbChunksPartition ==
    sVariant = "bbb_simple" =>
        /\ \A i, j \in 1..Len(sSlices) :
              i # j => Range(sSlices[i]) \cap Range(sSlices[j]) = {}
        /\ AllSplitJobsRan =>
              /\ UNION {Range(sSlices[i]) : i \in 1..Len(sSlices)} = 0..(total_rows - 1)
              /\ Len(Concat(sSlices)) = total_rows

\* Fewer rows than chunks: one row per early chunk, nothing for the last.
C12_Witness ==
    /\ sVariant = "bbb_simple"
    /\ total_chunks >= 3
    /\ total_rows >= 2
    /\ total_rows < total_chunks
    /\ Len(sSlices) = total_chunks
    /\ sSlices[1] = <<0>>
    /\ sSlices[total_chunks] = <<>>

(***************************************************************************)
(* GSHOPPING HOST POOL                                                     *)
(* process_chunk walks the rows of its chunk; scrape_product_with_host_pool*)
(* tries the FlareSolverr hosts in turn for one row.                       *)
(***************************************************************************)
MaxRowRetries == 3

FsUrlLists == {<<"fs1">>, <<"fs1", "fs2">>}

ChunkRows == <<"row_a", "row_b">>

\* What one attempt comes to: fetch_with_flaresolver returned an error, the
\* page is a CAPTCHA page, or the page was parsed to a status.
ParsedStatuses == {"completed", "no_products", "no_offers_found"}

AttemptOutcomes == {"fetch_error", "captcha"} \cup ParsedStatuses

\* retries = max_retries if max_retries > 0 else len(fs_urls); max(1, retries)
HostPoolRetries(retries_arg, hosts) ==
    LET retries == IF retries_arg > 0 THEN retries_arg ELSE Len(hosts)
    IN IF retries >= 1 THEN retries ELSE 1

AlwaysFirstHost(attempt, hosts) == hosts[1]

\* fs_urls[attempt % len(fs_urls)]
HostFor(attempt, hosts) == hosts[(attempt % Len(hosts)) + 1]

AlwaysFailed(parsed) == "flaresolver_failed"

\* what is returned when the loop ends without a completed page
StatusAfterLoop(parsed) == IF parsed # "" THEN parsed ELSE "flaresolver_failed"

notGshop == <<poolVars, httpVars, flareVars, cymaxVars, fpfcVars, indexVars,
              loadXmlVars, robotsVars, dashVars, splitVars,
              requestManagerVars, collectVars, seenVars, stopVars>>

GshopInit ==
    /\ PoolIdle /\ HttpIdle /\ FlareIdle /\ CymaxIdle /\ FpfcIdle
    /\ IndexIdle /\ LoadXmlIdle /\ RobotsIdle /\ DashIdle /\ SplitIdle
    /\ RequestManagerIdle /\ CollectIdle /\ SeenIdle /\ StopIdle
    /\ fs_urls \in FsUrlLists
    /\ gMaxRetries \in 0..MaxRowRetries
    /\ gDf \in {SubSeq(ChunkRows, 1, n) : n \in 0..Len(ChunkRows)}
    /\ gPc = "start"
    /\ gIdx = 0
    /\ gAttempt = 0
    /\ last_result = ""
    /\ gResult = ""
    /\ gFetches = <<>>
    /\ completed_products = <<>>
    /\ remaining_rows = <<>>

\* the for loop of process_chunk takes its next row, or ends
GsNextRow ==
    /\ gPc = "start"
    /\ IF gIdx < Len(gDf)
       THEN /\ gIdx' = gIdx + 1
            /\ gPc' = "attempts"
       ELSE /\ gPc' = "done"
            /\ UNCHANGED gIdx
    /\ gAttempt' = 0
    /\ last_result' = ""
    /\ gResult' = ""
    /\ UNCHANGED <<fs_urls, gMaxRetries, gDf, gFetches, completed_products,
                   remaining_rows>>
    /\ UNCHANGED notGshop

\* one turn of: for attempt in range(retries)
GsAttempt ==
    /\ gPc = "attempts"
    /\ gAttempt < HostPoolRetries(gMaxRetries, fs_urls)
    /\ \E outcome \in AttemptOutcomes :
          /\ gFetches' = Append(gFetches,
                            [row |-> gDf[gIdx], attempt |-> gAttempt,
                             host |-> HostFor(gAttempt, fs_urls), outcome |-> outcome])
          /\ IF outcome = "completed"
             THEN /\ gResult' = "completed"
                  /\ gPc' = "returned"
                  /\ UNCHANGED <<gAttempt, last_result>>
             ELSE /\ gAttempt' = gAttempt + 1
                  /\ last_result' = IF outcome \in ParsedStatuses THEN outcome
                                    ELSE last_result
                  /\ UNCHANGED <<gResult, gPc>>
    /\ UNCHANGED <<fs_urls, gMaxRetries, gDf, gIdx, completed_products, remaining_rows>>
    /\ UNCHANGED notGshop

\* the loop is exhausted: return last_result or the flaresolver_failed record
GsExhausted ==
    /\ gPc = "attempts"
    /\ gAttempt >= HostPoolRetries(gMaxRetries, fs_urls)
    /\ gResult' = StatusAfterLoop(last_result)
    /\ gPc' = "returned"
    /\ UNCHANGED <<fs_urls, gMaxRetries, gDf, gIdx, gAttempt, last_result, gFetches,
                   completed_products, remaining_rows>>
    /\ UNCHANGED notGshop

\* process_chunk files the result under completed or remaining
GsCollect ==
    /\ gPc = "returned"
    /\ IF gResult = "completed"
       THEN /\ completed_products' = Append(completed_products, gDf[gIdx])
            /\ UNCHANGED remaining_rows
       ELSE /\ remaining_rows' = Append(remaining_rows,
                                    [row |-> gDf[gIdx], status |-> gResult])
            /\ UNCHANGED completed_products
    /\ gPc' = "start"
    /\ UNCHANGED <<fs_urls, gMaxRetries, gDf, gIdx, gAttempt, last_result, gResult,
                   gFetches>>
    /\ UNCHANGED notGshop

GshopNext ==
    \/ GsNextRow
    \/ GsAttempt
    \/ GsExhausted
    \/ GsCollect

SpecGshop == GshopInit /\ [][GshopNext]_vars

FetchesOf(row) == SelectSeq(gFetches, LAMBDA f : f.row = row)

\* C13: per input row at most R fetches, R = max_retries if > 0, else the
\* number of hosts; the k-th attempt (from 0) goes to fs_urls[k mod n]; a
\* completed attempt is the last fetch for its row.
C13_HostPoolAttempts ==
    \A i \in 1..Len(gDf) :
        LET fs == FetchesOf(gDf[i])
            R  == IF gMaxRetries > 0 THEN gMaxRetries ELSE Len(fs_urls)
        IN /\ Len(fs) <= R
           /\ \A k \in 1..Len(fs) :
                 /\ fs[k].attempt = k - 1
                 /\ fs[k].host = fs_urls[((k - 1) % Len(fs_urls)) + 1]
                 /\ fs[k].outcome = "completed" => k = Len(fs)

\* Two hosts, three attempts: the third went back to the first host and
\* completed.
C13_Witness ==
    /\ Len(fs_urls) = 2
    /\ gPc = "returned"
    /\ gResult = "completed"
    /\ Len(gFetches) = 3
    /\ gFetches[3].host = fs_urls[1]
    /\ gFetches[2].host = fs_urls[2]

Completed(row) == \E k \in 1..Len(gFetches) :
                     gFetches[k].row = row /\ gFetches[k].outcome = "completed"

\* The status of the last page of the row that was parsed, "" if none was.
LastParsed(row) ==
    LET fs == FetchesOf(row)
        ks == {k \in 1..Len(fs) : fs[k].outcome \in ParsedStatuses}
    IN IF ks = {} THEN ""
       ELSE fs[CHOOSE k \in ks : \A j \in ks : j <= k].outcome

TimesFiled(row) ==
    Cardinality({k \in 1..Len(completed_products) : completed_products[k] = row})
    + Cardinality({k \in 1..Len(remaining_rows) : remaining_rows[k].row = row})

\* C14: when process_chunk is through, every row of the chunk is in exactly
\* one of the two lists: in completed_products iff one of its attempts
\* completed, otherwise in remaining_rows with the status of the last
\* parsed page, or 'flaresolver_failed' when no attempt got a page parsed.
C14_EveryRowFiledOnce ==
    /\ \A i \in 1..Len(gDf) : TimesFiled(gDf[i]) <= 1
    /\ gPc = "done" =>
          /\ Len(completed_products) + Len(remaining_rows) = Len(gDf)
          /\ \A i \in 1..Len(gDf) :
                LET row == gDf[i]
                IN /\ TimesFiled(row) = 1
                   /\ Completed(row) <=> \E k \in 1..Len(completed_products) :
                                              completed_products[k] = row
                   /\ \A k \in 1..Len(remaining_rows) :
                         remaining_rows[k].row = row =>
                             remaining_rows[k].status =
                                 IF LastParsed(row) = "" THEN "flaresolver_failed"
                                 ELSE LastParsed(row)

\* One row completed on a retry; the other was parsed once, then failed to
\* fetch, and keeps the parsed status.
C14_Witness ==
    /\ gPc = "done"
    /\ Len(completed_products) = 1
    /\ Len(remaining_rows) = 1
    /\ remaining_rows[1].status = "no_products"
    /\ \E k \in 2..Len(gFetches) :
          /\ gFetches[k].row = remaining_rows[1].row
          /\ gFetches[k].outcome = "fetch_error"
          /\ gFetches[k - 1].outcome = "no_products"
          /\ gFetches[k - 1].row = remaining_rows[1].row

(***************************************************************************)
(* REQUEST MANAGER                                                         *)
(* fp_fc_scraper.http_get calls RequestManager.fetch, which asks the       *)
(* FlareSolverr session for the page and decides on the pair it returns.   *)
(***************************************************************************)
MaxCalls == 2

retry_delays == <<1, 2, 4>>

PageUrls == {"page1.html", "page2.html"}

\* What happens to one session fetch: FlareSolverr solves the request and
\* hands back what the target answered (its status and body), or all its
\* attempts fail.
SessionOutcomes ==
    [solved : BOOLEAN, target : {200, 403, 404, 429, 503}, body : {"html", ""}]

\* flaresolverr_request returns (content, 200) when FlareSolverr reports
\* status ok, whatever the target answered, and (None, 0) otherwise.
SessionFetch(outcome) ==
    IF outcome.solved
    THEN [content |-> outcome.body, status |-> 200]
    ELSE [content |-> None, status |-> 0]

\* if content and status == 200
IsPage(got) == got.content \notin {None, ""} /\ got.status = 200

notRequestManager == <<poolVars, httpVars, flareVars, cymaxVars, fpfcVars,
                       indexVars, loadXmlVars, robotsVars, dashVars,
                       splitVars, gshopVars, collectVars, seenVars, stopVars>>

RequestManagerInit ==
    /\ PoolIdle /\ HttpIdle /\ FlareIdle /\ CymaxIdle /\ FpfcIdle
    /\ IndexIdle /\ LoadXmlIdle /\ RobotsIdle /\ DashIdle /\ SplitIdle
    /\ GshopIdle /\ CollectIdle /\ SeenIdle /\ StopIdle
    /\ rmPc = "idle"
    /\ rmUrl = ""
    /\ retry_count = 0
    /\ request_count = 0
    /\ rmLog = <<>>
    /\ rmResult = <<>>

\* http_get(url): request_manager.fetch(url, crawl_delay=crawl_delay)
RmHttpGet ==
    /\ rmPc = "idle"
    /\ Len(rmResult) < MaxCalls
    /\ \E url \in PageUrls : rmUrl' = url
    /\ retry_count' = 0
    /\ rmPc' = "fetch"
    /\ UNCHANGED <<request_count, rmLog, rmResult>>
    /\ UNCHANGED notRequestManager

\* one activation of RequestManager.fetch, up to its return or its
\* recursive call
RmFetch ==
    /\ rmPc = "fetch"
    /\ IF retry_count >= Len(retry_delays)
       THEN /\ rmResult' = Append(rmResult, None)
            /\ rmPc' = "idle"
            /\ UNCHANGED <<retry_count, request_count, rmLog>>
       ELSE \E outcome \in SessionOutcomes :
              LET got == SessionFetch(outcome)
                  fetched == [ev |-> "fetch", url |-> rmUrl, retry |-> retry_count,
                              outcome |-> outcome, status |-> got.status,
                              delay |-> 0, jitter |-> FALSE]
                  slept(j) == [ev |-> "sleep", url |-> rmUrl, retry |-> retry_count,
                               outcome |-> outcome, status |-> got.status,
                               delay |-> retry_delays[retry_count + 1], jitter |-> j]
              IN /\ request_count' = request_count + 1
                 /\ IF IsPage(got)
                    THEN /\ rmResult' = Append(rmResult, got.content)
                         /\ rmLog' = Append(rmLog, fetched)
                         /\ rmPc' = "idle"
                         /\ UNCHANGED retry_count
                    ELSE IF got.status \in {403, 429, 503}
                    THEN /\ rmLog' = rmLog \o <<fetched, slept(TRUE)>>
                         /\ retry_count' = retry_count + 1
                         /\ UNCHANGED <<rmResult, rmPc>>
                    ELSE IF got.status = 404
                    THEN /\ rmResult' = Append(rmResult, None)
                         /\ rmLog' = Append(rmLog, fetched)
                         /\ rmPc' = "idle"
                         /\ UNCHANGED retry_count
                    ELSE IF got.status # 200 /\ got.status # 0
                    THEN /\ rmLog' = rmLog \o <<fetched, slept(FALSE)>>
                         /\ retry_count' = retry_count + 1
                         /\ UNCHANGED <<rmResult, rmPc>>
                    ELSE /\ rmResult' = Append(rmResult, None)
                         /\ rmLog' = Append(rmLog, fetched)
                         /\ rmPc' = "idle"
                         /\ UNCHANGED retry_count
    /\ UNCHANGED rmUrl
    /\ UNCHANGED notRequestManager

RequestManagerNext ==
    \/ RmHttpGet
    \/ RmFetch

SpecRequestManager == RequestManagerInit /\ [][RequestManagerNext]_vars

\* The fetch at position k of the log is followed by the sleep of
\* retry_delays[retry] plus jitter and by another fetch of the same URL.
RetriedAfter(k) ==
    /\ Len(rmLog) >= k + 2
    /\ rmLog[k + 1].ev = "sleep"
    /\ rmLog[k + 1].delay = retry_delays[rmLog[k].retry + 1]
    /\ rmLog[k + 1].jitter
    /\ rmLog[k + 2].ev = "fetch"
    /\ rmLog[k + 2].url = rmLog[k].url
    /\ rmLog[k + 2].retry = rmLog[k].retry + 1

\* C15 as stated: a fetch that fails with target status 403, 429 or 503 is
\* followed by a sleep of retry_delays[retry_count] plus jitter and another
\* fetch of the same URL (as long as retries are left), a 404 is not
\* retried, and a top-level call makes at most len(retry_delays) fetches.
C15_RetriesOnBlockedStatus ==
    rmPc = "idle" =>
        \A k \in 1..Len(rmLog) :
            rmLog[k].ev = "fetch" =>
                /\ rmLog[k].retry < Len(retry_delays)
                /\ rmLog[k].outcome.solved /\ rmLog[k].outcome.target \in {403, 429, 503}
                   /\ rmLog[k].retry < Len(retry_delays) - 1
                      => RetriedAfter(k)
                /\ rmLog[k].outcome.solved /\ rmLog[k].outcome.target = 404
                      => ~RetriedAfter(k)

(***************************************************************************)
(* COLLECTING THE FUTURES                                                  *)
(* The sitemap loop of walmart.run, bisonoffice.run and fp_fc_scraper.main:*)
(* submit one task per URL, take the futures as they complete, count an    *)
(* exception as one error.  stats['errors'] += 1 is a read followed by a   *)
(* write; the main thread runs it without a lock while tasks of the same   *)
(* pool, which run it too, are still at work.                              *)
(***************************************************************************)
MaxPoolSitemaps == 2

MaxPoolUrls == 2

\* A task has ended: it returned, returned after counting an error of its
\* own, or raised.
Ended == {"returned", "counted", "raised"}

Futures == 1..Len(kTask)

collectVarsMain == <<kPc, kSitemapsLeft, kCollected, kFuture, kMainRead>>

notCollect == <<poolVars, httpVars, flareVars, cymaxVars, fpfcVars, indexVars,
                loadXmlVars, robotsVars, dashVars, splitVars, gshopVars,
                requestManagerVars, seenVars, stopVars>>

CollectInit ==
    /\ PoolIdle /\ HttpIdle /\ FlareIdle /\ CymaxIdle /\ FpfcIdle
    /\ IndexIdle /\ LoadXmlIdle /\ RobotsIdle /\ DashIdle /\ SplitIdle
    /\ GshopIdle /\ RequestManagerIdle /\ SeenIdle /\ StopIdle
    /\ kPc = "submit"
    /\ kSitemapsLeft \in 1..MaxPoolSitemaps
    /\ kTask = <<>>
    /\ kRead = <<>>
    /\ kCollected = {}
    /\ kFuture = 0
    /\ kMainRead = 0
    /\ errors = 0

\* for sitemap_url in sitemaps_to_run: ... futures = [executor.submit(...)]
KSubmit ==
    /\ kPc = "submit"
    /\ kSitemapsLeft > 0
    /\ \E n \in 1..MaxPoolUrls :
          /\ kTask' = [i \in 1..n |-> "queued"]
          /\ kRead' = [i \in 1..n |-> 0]
    /\ kSitemapsLeft' = kSitemapsLeft - 1
    /\ kCollected' = {}
    /\ kPc' = "collect"
    /\ UNCHANGED <<kFuture, kMainRead, errors>>
    /\ UNCHANGED notCollect

\* a pool thread picks the task up
KTaskStart(i) ==
    /\ kTask[i] = "queued"
    /\ kTask' = [kTask EXCEPT ![i] = "running"]
    /\ UNCHANGED <<collectVarsMain, kRead, errors>>
    /\ UNCHANGED notCollect

\* the task returns without having counted an error
KTaskReturn(i) ==
    /\ kTask[i] = "running"
    /\ kTask' = [kTask EXCEPT ![i] = "returned"]
    /\ UNCHANGED <<collectVarsMain, kRead, errors>>
    /\ UNCHANGED notCollect

\* the task raises (fp_fc: BeautifulSoup(None) after a failed fetch)
KTaskRaise(i) ==
    /\ kTask[i] = "running"
    /\ kTask' = [kTask EXCEPT ![i] = "raised"]
    /\ UNCHANGED <<collectVarsMain, kRead, errors>>
    /\ UNCHANGED notCollect

\* the task counts an error itself: the read of stats['errors'] += 1
KTaskReadErrors(i) ==
    /\ kTask[i] = "running"
    /\ kRead' = [kRead EXCEPT ![i] = errors]
    /\ kTask' = [kTask EXCEPT ![i] = "read"]
    /\ UNCHANGED <<collectVarsMain, errors>>
    /\ UNCHANGED notCollect

\* ... and its write; the task then returns
KTaskWriteErrors(i) ==
    /\ kTask[i] = "read"
    /\ errors' = kRead[i] + 1
    /\ kTask' = [kTask EXCEPT ![i] = "counted"]
    /\ UNCHANGED <<collectVarsMain, kRead>>
    /\ UNCHANGED notCollect

\* for future in as_completed(futures): future.result()
KCollect(i) ==
    /\ kPc = "collect"
    /\ i \notin kCollected
    /\ kTask[i] \in Ended
    /\ IF kTask[i] = "raised"
       THEN /\ kPc' = "caught"
            /\ kFuture' = i
            /\ UNCHANGED kCollected
       ELSE /\ kCollected' = kCollected \cup {i}
            /\ UNCHANGED <<kPc, kFuture>>
    /\ UNCHANGED <<kSitemapsLeft, kTask, kRead, kMainRead, errors>>
    /\ UNCHANGED notCollect

\* except Exception: stats['errors'] += 1 -- the read
KMainReadErrors ==
    /\ kPc = "caught"
    /\ kMainRead' = errors
    /\ kPc' = "write"
    /\ UNCHANGED <<kSitemapsLeft, kTask, kRead, kCollected, kFuture, errors>>
    /\ UNCHANGED notCollect

\* ... and the write
KMainWriteErrors ==
    /\ kPc = "write"
    /\ errors' = kMainRead + 1
    /\ kCollected' = kCollected \cup {kFuture}
    /\ kPc' = "collect"
    /\ UNCHANGED <<kSitemapsLeft, kTask, kRead, kFuture, kMainRead>>
    /\ UNCHANGED notCollect

\* every future was handed out: the pool is left, the loop goes on
KPoolDone ==
    /\ kPc = "collect"
    /\ kCollected = Futures
    /\ kPc' = IF kSitemapsLeft > 0 THEN "submit" ELSE "stats"
    /\ UNCHANGED <<kSitemapsLeft, kTask, kRead, kCollected, kFuture, kMainRead, errors>>
    /\ UNCHANGED notCollect

\* the final statistics are logged
KFinalStats ==
    /\ kPc = "stats"
    /\ kPc' = "done"
    /\ UNCHANGED <<kSitemapsLeft, kTask, kRead, kCollected, kFuture, kMainRead, errors>>
    /\ UNCHANGED notCollect

CollectNext ==
    \/ KSubmit
    \/ \E i \in Futures : KTaskStart(i)
    \/ \E i \in Futures : KTaskReturn(i)
    \/ \E i \in Futures : KTaskRaise(i)
    \/ \E i \in Futures : KTaskReadErrors(i)
    \/ \E i \in Futures : KTaskWriteErrors(i)
    \/ \E i \in Futures : KCollect(i)
    \/ KMainReadErrors
    \/ KMainWriteErrors
    \/ KPoolDone
    \/ KFinalStats

SpecCollect == CollectInit /\ [][CollectNext]_vars

\* No submitted URL is cancelled or skipped, and the pool is only left, and
\* the statistics only reached, when every future has ended and was handled.
NothingSkipped ==
    /\ kPc \in {"submit", "stats", "done"} /\ kTask # <<>> =>
          /\ kCollected = Futures
          /\ \A i \in Futures : kTask[i] \in Ended
    /\ kPc \in {"stats", "done"} => kSitemapsLeft = 0

\* C16 as stated: an exception raised by one task is caught when its future
\* is collected and adds exactly one to stats['errors'] (the value written
\* is one more than the value the counter holds at that moment), no other
\* submitted URL is cancelled or skipped, and the run goes on to the
\* remaining sitemaps and the final statistics.
C16_ExceptionCountedOnce ==
    /\ NothingSkipped
    /\ kPc = "write" => kMainRead = errors

(***************************************************************************)
(* BISONOFFICE: THE SEEN SET                                               *)
(* BisonofficeScraper.run submits process_product_data once per listed URL;*)
(* each task tests and extends self.seen inside `with seen_lock`, then     *)
(* fetches the cleaned URL and writes a row.  seen_lock is created anew    *)
(* for every sitemap; the pool of one sitemap is joined before the next    *)
(* sitemap is read.                                                        *)
(***************************************************************************)
MaxSeenSitemaps == 2

MaxListed == 2

\* A listed URL: its path, and whether it carries a query string or a
\* trailing slash; bo records whether the query holds bo=0.
ListedUrls ==
    {[loc |-> "p1", query |-> FALSE, bo |-> FALSE],
     [loc |-> "p1", query |-> TRUE, bo |-> FALSE],
     [loc |-> "p2", query |-> FALSE, bo |-> FALSE]}

\* clean_url: strip query and trailing slash, then append bo=0.
clean_url(url) ==
    IF url.loc = "" THEN url
    ELSE append_bo_param([loc |-> url.loc, query |-> FALSE, bo |-> FALSE])

\* What the fetch and the extraction of one product come to.
ProductOutcomes == {"no_html", "insufficient", "row", "row_error"}

SeenTasks == 1..Len(snTask)

TaskOver == {"skipped", "done"}

notSeen == <<poolVars, httpVars, flareVars, cymaxVars, fpfcVars, indexVars,
             loadXmlVars, robotsVars, dashVars, splitVars, gshopVars,
             requestManagerVars, collectVars, stopVars>>

SeenInit ==
    /\ PoolIdle /\ HttpIdle /\ FlareIdle /\ CymaxIdle /\ FpfcIdle
    /\ IndexIdle /\ LoadXmlIdle /\ RobotsIdle /\ DashIdle /\ SplitIdle
    /\ GshopIdle /\ RequestManagerIdle /\ CollectIdle /\ StopIdle
    /\ snPc = "next"
    /\ snSitemapsLeft \in 1..MaxSeenSitemaps
    /\ snUrls = <<>>
    /\ snTask = <<>>
    /\ seen = {}
    /\ seen_lock = Free
    /\ snFetched = EmptyBag
    /\ snRows = EmptyBag

\* for sm_url in sitemaps_to_run: urls = get_product_urls(sm_url);
\* if not urls: continue; seen_lock = threading.Lock(); submit every url
SnSubmit ==
    /\ snPc = "next"
    /\ snSitemapsLeft > 0
    /\ snSitemapsLeft' = snSitemapsLeft - 1
    /\ \E urls \in SeqsUpTo(ListedUrls, MaxListed) :
          /\ snUrls' = urls
          /\ snTask' = [i \in 1..Len(urls) |-> "queued"]
          /\ snPc' = IF urls = <<>> THEN "next" ELSE "pool"
    /\ seen_lock' = Free
    /\ UNCHANGED <<seen, snFetched, snRows>>
    /\ UNCHANGED notSeen

\* with seen_lock: -- the task enters the with-block
SnAcquire(i) ==
    /\ snTask[i] = "queued"
    /\ LockAvailable(seen_lock)
    /\ seen_lock' = "held"
    /\ snTask' = [snTask EXCEPT ![i] = "test"]
    /\ UNCHANGED <<snPc, snSitemapsLeft, snUrls, seen, snFetched, snRows>>
    /\ UNCHANGED notSeen

\* if product_url in seen: return -- leaving the with-block releases the lock
SnTest(i) ==
    /\ snTask[i] = "test"
    /\ IF snUrls[i] \in seen
       THEN /\ snTask' = [snTask EXCEPT ![i] = "skipped"]
            /\ seen_lock' = Free
       ELSE /\ snTask' = [snTask EXCEPT ![i] = "add"]
            /\ UNCHANGED seen_lock
    /\ UNCHANGED <<snPc, snSitemapsLeft, snUrls, seen, snFetched, snRows>>
    /\ UNCHANGED notSeen

\* seen.add(product_url) -- and the with-block ends
SnAdd(i) ==
    /\ snTask[i] = "add"
    /\ seen' = seen \cup {snUrls[i]}
    /\ seen_lock' = Free
    /\ snTask' = [snTask EXCEPT ![i] = "fetch"]
    /\ UNCHANGED <<snPc, snSitemapsLeft, snUrls, snFetched, snRows>>
    /\ UNCHANGED notSeen

\* clean_product_url = clean_url(product_url); html_content = http_get(...);
\* no content or insufficient data: count an error and return; else the row
\* is written under csv_lock (a failure while building it is caught).
SnFetch(i) ==
    /\ snTask[i] = "fetch"
    /\ \E outcome \in ProductOutcomes :
          /\ snFetched' = snFetched (+)
                SetToBag({[url |-> snUrls[i], request |-> clean_url(snUrls[i])]})
          /\ snRows' = IF outcome = "row"
                       THEN snRows (+)
                            SetToBag({[url |-> snUrls[i], ref |-> clean_url(snUrls[i])]})
                       ELSE snRows
    /\ snTask' = [snTask EXCEPT ![i] = "done"]
    /\ UNCHANGED <<snPc, snSitemapsLeft, snUrls, seen, seen_lock>>
    /\ UNCHANGED notSeen

\* the with ThreadPoolExecutor block ends once every task is over
SnPoolDone ==
    /\ snPc = "pool"
    /\ \A i \in SeenTasks : snTask[i] \in TaskOver
    /\ snPc' = "next"
    /\ snUrls' = <<>>
    /\ snTask' = <<>>
    /\ UNCHANGED <<snSitemapsLeft, seen, seen_lock, snFetched, snRows>>
    /\ UNCHANGED notSeen

\* the loop is over: the statistics are logged
SnFinish ==
    /\ snPc = "next"
    /\ snSitemapsLeft = 0
    /\ snPc' = "complete"
    /\ UNCHANGED <<snSitemapsLeft, snUrls, snTask, seen, seen_lock, snFetched, snRows>>
    /\ UNCHANGED notSeen

SeenNext ==
    \/ SnSubmit
    \/ \E i \in SeenTasks : SnAcquire(i)
    \/ \E i \in SeenTasks : SnTest(i)
    \/ \E i \in SeenTasks : SnAdd(i)
    \/ \E i \in SeenTasks : SnFetch(i)
    \/ SnPoolDone
    \/ SnFinish

SpecSeen == SeenInit /\ [][SeenNext]_vars

\* How often http_get was called for the listed URL u, and how many rows
\* were written for it.
FetchesFor(u) == CopiesIn([url |-> u, request |-> clean_url(u)], snFetched)

RowsFor(u) == CopiesIn([url |-> u, ref |-> clean_url(u)], snRows)

\* Tasks of the current pool that were given the URL u.
TasksFor(u) == {i \in SeenTasks : snUrls[i] = u}

\* C17: under every interleaving of the tasks, a product URL listed several
\* times, in one sitemap or in several sitemaps of the run, is fetched at
\* most once and written at most once, and at most one task at a time is
\* past the seen test for it.
C17_SeenUrlFetchedOnce ==
    \A u \in ListedUrls :
        /\ FetchesFor(u) <= 1
        /\ RowsFor(u) <= 1
        /\ Cardinality({i \in TasksFor(u) : snTask[i] \in {"add", "fetch"}})
              + FetchesFor(u) <= 1

\* A URL was listed twice in one pool: one task fetched it and wrote its
\* row, the other found it in the seen set and returned.
C17_Witness ==
    \E u \in ListedUrls :
        /\ Cardinality(TasksFor(u)) >= 2
        /\ \E i \in TasksFor(u) : snTask[i] = "skipped"
        /\ FetchesFor(u) = 1
        /\ RowsFor(u) = 1

\* The same URL came up again in a later sitemap of the run and was skipped.
C17_WitnessAcrossSitemaps ==
    \E u \in ListedUrls :
        /\ Cardinality(TasksFor(u)) = 1
        /\ \E i \in TasksFor(u) : snTask[i] = "skipped"
        /\ FetchesFor(u) = 1

(***************************************************************************)
(* DASHBOARD: STOPPING A WORKFLOW                                          *)
(* api_stop and ProcessManager.stop next to the start requests above.      *)
(* start() launches the script with subprocess.Popen and no new session or *)
(* process group, so every subprocess is a member of the dashboard's own   *)
(* process group, and os.getpgid(proc.pid) is that group.  No handler for  *)
(* SIGTERM is installed in app.py: the signal ends the process it reaches. *)
(***************************************************************************)
MaxStopLaunches == 2

NotRunning == [code |-> 200, body |-> "not_running", pid |-> 0]

Stopped(pid) == [code |-> 200, body |-> "stopped", pid |-> pid]

NotFound == [code |-> 404, body |-> "unknown workflow", pid |-> 0]

\* The members of the dashboard's process group other than the dashboard.
ProcessGroup == {pid \in 1..Len(launched) : launched[pid].alive}

notDashStop == <<poolVars, httpVars, flareVars, cymaxVars, fpfcVars, indexVars,
                 loadXmlVars, robotsVars, splitVars, gshopVars,
                 requestManagerVars, collectVars, seenVars>>

StopInit == DashInit

\* POST /api/workflows/<key>/stop with a key outside WORKFLOWS: 404
ApiStopUnknown(t) ==
    /\ dPc[t] = "idle"
    /\ dResponse' = [dResponse EXCEPT ![t] = NotFound]
    /\ UNCHANGED <<_lock, _procs, _logs, launched, bufLines, dPc, dKey, dProc>>
    /\ UNCHANGED <<sigterm, dashboardDown>>
    /\ UNCHANGED notDashStop

\* POST /api/workflows/<key>/stop reaches pm.stop(key)
ApiStop(t, key) ==
    /\ dPc[t] = "idle"
    /\ dPc' = [dPc EXCEPT ![t] = "stop_lock"]
    /\ dKey' = [dKey EXCEPT ![t] = key]
    /\ dResponse' = [dResponse EXCEPT ![t] = NoAnswer]
    /\ UNCHANGED <<_lock, _procs, _logs, launched, bufLines, dProc>>
    /\ UNCHANGED <<sigterm, dashboardDown>>
    /\ UNCHANGED notDashStop

\* with self._lock: info = self._procs.get(key)
StopAcquire(t) ==
    /\ dPc[t] = "stop_lock"
    /\ LockAvailable(_lock)
    /\ _lock' = t
    /\ dPc' = [dPc EXCEPT ![t] = "stop_check"]
    /\ UNCHANGED <<_procs, _logs, launched, bufLines, dKey, dProc, dResponse>>
    /\ UNCHANGED <<sigterm, dashboardDown>>
    /\ UNCHANGED notDashStop

\* if not info or info["proc"].poll() is not None:
\*     return {"status": "not_running"}
StopNotRunning(t) ==
    /\ dPc[t] = "stop_check"
    /\ ~IsRunning(dKey[t])
    /\ dResponse' = [dResponse EXCEPT ![t] = NotRunning]
    /\ _lock' = Free
    /\ dPc' = [dPc EXCEPT ![t] = "idle"]
    /\ UNCHANGED <<_procs, _logs, launched, bufLines, dKey, dProc>>
    /\ UNCHANGED <<sigterm, dashboardDown>>
    /\ UNCHANGED notDashStop

\* os.killpg(os.getpgid(info["proc"].pid), signal.SIGTERM): the signal goes
\* to every member of the process group, the dashboard included; the
\* request thread ends with its process.
StopKillpg(t) ==
    /\ dPc[t] = "stop_check"
    /\ IsRunning(dKey[t])
    /\ sigterm' = sigterm \cup {[pid |-> p, key |-> dKey[t]] : p \in ProcessGroup}
    /\ dashboardDown' = TRUE
    /\ dPc' = [dPc EXCEPT ![t] = "killed"]
    /\ UNCHANGED <<_lock, _procs, _logs, launched, bufLines, dKey, dProc, dResponse>>
    /\ UNCHANGED notDashStop

\* except Exception: info["proc"].terminate() -- killpg or getpgid raised
\* (os.killpg does not exist on every platform): SIGTERM to the subprocess
StopTerminate(t) ==
    /\ dPc[t] = "stop_check"
    /\ IsRunning(dKey[t])
    /\ sigterm' = sigterm \cup {[pid |-> _procs[dKey[t]], key |-> dKey[t]]}
    /\ dProc' = [dProc EXCEPT ![t] = _procs[dKey[t]]]
    /\ dPc' = [dPc EXCEPT ![t] = "stop_wait"]
    /\ UNCHANGED <<_lock, _procs, _logs, launched, bufLines, dKey, dResponse>>
    /\ UNCHANGED dashboardDown
    /\ UNCHANGED notDashStop

\* info["proc"].wait(timeout=5) returns: return {"status": "stopped"}
StopWaitReturns(t) ==
    /\ dPc[t] = "stop_wait"
    /\ ~launched[dProc[t]].alive
    /\ dResponse' = [dResponse EXCEPT ![t] = Stopped(dProc[t])]
    /\ _lock' = Free
    /\ dPc' = [dPc EXCEPT ![t] = "idle"]
    /\ UNCHANGED <<_procs, _logs, launched, bufLines, dKey, dProc>>
    /\ UNCHANGED <<sigterm, dashboardDown>>
    /\ UNCHANGED notDashStop

\* wait(timeout=5) raises TimeoutExpired: the process still runs after five
\* seconds; the exception leaves stop() and Flask answers 500
StopWaitTimeout(t) ==
    /\ dPc[t] = "stop_wait"
    /\ launched[dProc[t]].alive
    /\ dResponse' = [dResponse EXCEPT ![t] = ServerError]
    /\ _lock' = Free
    /\ dPc' = [dPc EXCEPT ![t] = "idle"]
    /\ UNCHANGED <<_procs, _logs, launched, bufLines, dKey, dProc>>
    /\ UNCHANGED <<sigterm, dashboardDown>>
    /\ UNCHANGED notDashStop

\* The request threads and the reader threads run while the dashboard
\* process does; a subprocess ends on its own account or on a signal.
StopNext ==
    \/ /\ ~dashboardDown
       /\ \/ /\ Len(launched) + Cardinality(InFlight) < MaxStopLaunches
             /\ \E t \in RequestThreads, key \in WorkflowKeys : ApiStart(t, key)
          \/ \E t \in RequestThreads : StartAcquire(t)
          \/ \E t \in RequestThreads : StartRefused(t)
          \/ \E t \in RequestThreads : StartPopen(t)
          \/ \E t \in RequestThreads : StartPopenFails(t)
          \/ \E t \in RequestThreads : StartStore(t)
          \/ \E pid \in 1..Len(launched) : ReaderAppends(pid)
          \/ \E t \in RequestThreads : ApiStopUnknown(t)
          \/ \E t \in RequestThreads, key \in WorkflowKeys : ApiStop(t, key)
          \/ \E t \in RequestThreads : StopAcquire(t)
          \/ \E t \in RequestThreads : StopNotRunning(t)
          \/ \E t \in RequestThreads : StopKillpg(t)
          \/ \E t \in RequestThreads : StopTerminate(t)
          \/ \E t \in RequestThreads : StopWaitReturns(t)
          \/ \E t \in RequestThreads : StopWaitTimeout(t)
    \/ \E pid \in 1..Len(launched) : ProcessExits(pid)

SpecStop == StopInit /\ [][StopNext]_vars

\* A stop that answered 'stopped' names a process that has exited.
StoppedMeansExited ==
    \A t \in RequestThreads :
        dResponse[t].body = "stopped" => ~launched[dResponse[t].pid].alive

\* A stop that finds its key not running sends no signal and answers
\* 'not_running'.
NotRunningSendsNothing ==
    [][\A t \in RequestThreads :
          (dPc[t] = "stop_check" /\ ~IsRunning(dKey[t]) /\ dPc'[t] # dPc[t]) =>
              /\ sigterm' = sigterm
              /\ dashboardDown' = dashboardDown
              /\ dResponse'[t] = NotRunning]_vars

StoppedAnswered ==
    \E t \in RequestThreads :
        /\ dResponse[t].body = "stopped"
        /\ [pid |-> dResponse[t].pid, key |-> dKey[t]] \in sigterm

====
